---- MODULE Spec2Model ----
(***************************************************************************)
(* Knowledge store engine of context-portal (context_portal_mcp/db).       *)
(*                                                                         *)
(* State: the process-wide registries of orm_session.py, of its monolithic  *)
(* twin orm_database.py and of orm_models.py, the physical database each   *)
(* connection URL names, and the position and locals of every caller       *)
(* thread.  Each database round trip is one step; a round trip may fail    *)
(* (the except branches of the source decide what happens next).           *)
(***************************************************************************)
EXTENDS FiniteSets, Integers, Sequences, TLC

\* ------------------------------------------------------------------ bounds
MaxHist == 2        \* updates started per database (caps the history log)
MaxEngines == 2     \* create_engine calls in one run
MaxCustom == 2      \* rows of custom_data per database
MaxDecisions == 2   \* rows of decisions per database
MaxProgress == 2    \* rows of progress_entries per database

\* ------------------------------------------------------------- value sets
Threads == {1, 2}
Workspaces == {"w1", "w2", "w-1", "w_1"}
ContextKinds == {"product", "active"}
KeyOrder == <<"a", "b">>          \* the document keys, in text order
DocVals == {"x", "y"}                  \* ordinary JSON values
DeleteSentinel == "__DELETE__"

SeqRange(s) == {s[i] : i \in 1..Len(s)}
DocKeys == SeqRange(KeyOrder)

\* The values each key takes in the documents and patches of a run.
ValsOf(k) == IF k = "a" THEN DocVals ELSE {"x"}

\* A document is a Python dict: a function from some of the keys to values.
Docs ==
  UNION {{d \in [S -> DocVals] : \A k \in S : d[k] \in ValsOf(k)} :
           S \in SUBSET DocKeys}
Patches ==
  UNION {{p \in [S -> DocVals \cup {DeleteSentinel}] :
            \A k \in S : p[k] \in ValsOf(k) \cup {DeleteSentinel}} :
           S \in SUBSET DocKeys}
EmptyDoc == [k \in {} |-> "x"]

\* Optional values: {} is None, {v} is a value.
None == {}
Some(v) == {v}
TheVal(o) == CHOOSE v \in o : TRUE

\* -------------------------------------------------------------- the codec
\* JSONEncodedDict.process_bind_param: json.dumps(value), the column text.
\* The text is the sequence of (key, value) members.
process_bind_param(d) ==
  LET ks == SelectSeq(KeyOrder, LAMBDA k : k \in DOMAIN d)
  IN  [i \in 1..Len(ks) |-> <<ks[i], d[ks[i]]>>]

\* JSONEncodedDict.process_result_value: json.loads(text).
process_result_value(txt) ==
  [k \in {txt[i][1] : i \in 1..Len(txt)} |->
      (CHOOSE p \in SeqRange(txt) : p[1] = k)[2]]

\* ------------------------------------------------------- backend selection
\* str.lower() on the strings that occur as backend names.
Lower(str) ==
  CASE str = "SQLITE" -> "sqlite"
    [] str = "Postgres" -> "postgres"
    [] str = "PostgreSQL" -> "postgresql"
    [] OTHER -> str

\* os.getenv("CONPORT_DB_TYPE", "sqlite"): envval is None when unset.
Getenv(envval) == IF envval = None THEN "sqlite" ELSE TheVal(envval)

\* DatabaseConfig._detect_db_type
DetectDbType(envval) ==
  LET db_type == Lower(Getenv(envval)) IN
  IF db_type \notin {"sqlite", "postgresql", "postgres"} THEN "sqlite"
  ELSE IF db_type = "postgres" THEN "postgresql"
  ELSE db_type

\* DatabaseConfig.__init__: db_type or self._detect_db_type()
ConfigDbType(dbarg, envval) ==
  IF dbarg # None /\ TheVal(dbarg) # "" THEN TheVal(dbarg) ELSE DetectDbType(envval)

\* The modules that keep a registry of engines and session factories of
\* their own.  orm_database.py repeats the functions of orm_session.py,
\* orm_init.py and of the entity modules statement by statement over its own
\* _engines / _session_factories; orm_models.py has get_engine,
\* get_session_factory and create_tables only.
Modules == {"orm_session", "orm_database", "orm_models"}

\* key = f"{workspace_id}_{config.db_type}" in the registry of module m.
RegistryKey(m, ws, dbtype) == <<ws, dbtype, m>>
ModOf(k) == k[3]

DbTypes == {"sqlite", "postgresql"}
Keys ==
  {RegistryKey(m, w, b) : m \in Modules, w \in Workspaces, b \in DbTypes}

\* The backend a call resolves: orm_models takes its db_type parameter as it
\* is (default "sqlite"), the other modules build a DatabaseConfig.
ResolveDbType(m, dbarg, envval) ==
  IF m = "orm_models"
  THEN (IF dbarg = None THEN "sqlite" ELSE TheVal(dbarg))
  ELSE ConfigDbType(dbarg, envval)

\* The characters of a workspace id.
Chars(ws) ==
  CASE ws = "w1" -> <<"w", "1">>
    [] ws = "w2" -> <<"w", "2">>
    [] ws = "w-1" -> <<"w", "-", "1">>
    [] ws = "w_1" -> <<"w", "_", "1">>

\* str.replace(old, new) for a one-character old.
Replace(txt, old, new) ==
  [i \in 1..Len(txt) |-> IF txt[i] = old THEN new ELSE txt[i]]

\* workspace_id.replace('/', '_').replace('\\', '_').replace('-', '_')
safe_workspace(ws) ==
  Replace(Replace(Replace(Chars(ws), "/", "_"), "\\", "_"), "-", "_")

\* The database name of _get_postgresql_url, POSTGRES_DB being unset.
PostgresDbName(ws) == <<"context_portal_">> \o safe_workspace(ws)

\* core.config.get_database_path(workspace_id): the database file below the
\* workspace directory, one file per workspace path.
get_database_path(ws) == Chars(ws) \o <<"/context_portal/context.db">>

\* DatabaseConfig.get_connection_url: the URL (backend, database), None when
\* ValueError("Unsupported database type") is raised.  Host, port, user and
\* password are the same for every workspace.
get_connection_url(ws, dbtype) ==
  IF dbtype = "sqlite" THEN Some(<<"sqlite", get_database_path(ws)>>)
  ELSE IF dbtype = "postgresql" THEN Some(<<"postgresql", PostgresDbName(ws)>>)
  ELSE None

\* orm_models.get_database_url: the postgresql name replaces '/' only.
ModelsDbName(ws) == <<"context_portal_">> \o Replace(Chars(ws), "/", "_")
get_database_url(ws, dbtype) ==
  IF dbtype = "sqlite" THEN Some(<<"sqlite", get_database_path(ws)>>)
  ELSE IF dbtype = "postgresql" THEN Some(<<"postgresql", ModelsDbName(ws)>>)
  ELSE None

\* The URL get_engine of the key's module hands to create_engine.
UrlOf(k) ==
  IF ModOf(k) = "orm_models" THEN get_database_url(k[1], k[2])
  ELSE get_connection_url(k[1], k[2])

\* The physical database behind a registry key: the one its URL names.
DbOf(k) == TheVal(UrlOf(k))
Databases == {DbOf(k) : k \in Keys}

\* "key in registry": only keys of supported backends are ever stored.
Cached(registry, k) == k \in Keys /\ registry[k] # 0

\* ------------------------------------------------------- patch application
\* update_*_context, the patch branch: a copy of the current document, then
\* for each (key, value) of the patch in order: pop the key when the value is
\* the sentinel, else assign it.
RECURSIVE ApplyPatchItems(_, _, _)
PatchSet(d, k, v) == [x \in (DOMAIN d) \cup {k} |-> IF x = k THEN v ELSE d[x]]
\* Mutation of PatchPop: the sentinel removes nothing.
PatchPop_Keep(d, k) == d
PatchPop(d, k) == [x \in (DOMAIN d) \ {k} |-> d[x]]
ApplyPatchItems(d, patch, ks) ==
  IF ks = <<>> THEN d
  ELSE LET k == Head(ks)
           v == patch[k]
           d2 == IF v = DeleteSentinel THEN PatchPop(d, k) ELSE PatchSet(d, k, v)
       IN  ApplyPatchItems(d2, patch, Tail(ks))
ApplyPatch(cur, patch) ==
  ApplyPatchItems(cur, patch, SelectSeq(KeyOrder, LAMBDA k : k \in DOMAIN patch))

\* Mutation of NewFinalContent: the replace branch merges the content into
\* the current document instead of replacing it.
NewFinalContent_Merge(cur, content, patch) ==
  IF content # None THEN Some(ApplyPatch(cur, TheVal(content)))
  ELSE IF patch # None THEN Some(ApplyPatch(cur, TheVal(patch)))
  ELSE None

\* Mutation of NewFinalContent: the patch branch starts from an empty
\* document instead of a copy of the current one.
NewFinalContent_FromEmpty(cur, content, patch) ==
  IF content # None THEN Some(TheVal(content))
  ELSE IF patch # None
  THEN Some(ApplyPatch(EmptyDoc, TheVal(patch)))
  ELSE None

\* update_*_context, "Determine new content": None when ValueError is raised.
NewFinalContent(cur, content, patch) ==
  IF content # None THEN Some(TheVal(content))
  ELSE IF patch # None THEN Some(ApplyPatch(cur, TheVal(patch)))
  ELSE None

\* ------------------------------------------------------------ history log
\* get_latest_context_version: max(version), 0 for an empty table, and 0
\* when the query raised SQLAlchemyError.
MaxVersion(h) ==
  IF h = <<>> THEN 0
  ELSE CHOOSE m \in {h[i].version : i \in 1..Len(h)} :
         \A i \in 1..Len(h) : h[i].version <= m
get_latest_context_version(h, queryFailed) ==
  IF queryFailed THEN 0 ELSE MaxVersion(h)

\* Mutation of add_context_history_entry: the newest row is overwritten
\* instead of a row being inserted.
add_context_history_entry_Overwrite(h, version, contentDict, changeSource) ==
  LET e == [version |-> version, content |-> process_bind_param(contentDict),
            change_source |-> changeSource]
  IN  IF h = <<>> THEN <<e>> ELSE [h EXCEPT ![Len(h)] = e]

\* add_context_history_entry: a new row (autoincrement id = position).
add_context_history_entry(h, version, contentDict, changeSource) ==
  Append(h, [version |-> version,
             content |-> process_bind_param(contentDict),
             change_source |-> changeSource])

ChangeSource(kind) ==
  IF kind = "product" THEN "update_product_context" ELSE "update_active_context"

\* ------------------------------------------------------------------ state
VARIABLES
  scope,       \* the callers and workspaces of this run, the environment
  engines,     \* _engines: key -> engine id, 0 when the key is absent
  slots,       \* _engines: key -> position of its entry in the dict, 0 absent
  nentries,    \* _engines of a module: entries used in the dict's entry table
  factories,   \* _session_factories: key -> id of the bound engine, 0 absent
  pools,       \* every engine create_engine returned: [key, disposed]
  db,          \* database (backend, name) -> its content
  opened,      \* keys for which a creating get_engine call has returned
  closed,      \* a close / closeAll call has started
  pc,          \* thread -> position
  loc          \* thread -> call arguments and locals

vars ==
  <<scope, engines, slots, nentries, factories, pools, db, opened, closed, pc,
    loc>>

\* Position of x in a sequence without repetitions.
Index(order, x) == CHOOSE i \in 1..Len(order) : order[i] = x

\* The tables of Base.metadata in the order create_all emits their CREATE
\* TABLE statements: the order in which orm_models declares the classes (no
\* table depends on another one).  decisions_fts and custom_data_fts are
\* mapped classes (lines 134-145) and so are created here, as ordinary
\* tables with the single column rowid.
TableOrder ==
  <<"product_context", "active_context", "decisions", "progress_entries",
    "system_patterns", "custom_data", "product_context_history",
    "active_context_history", "context_links", "decisions_fts",
    "custom_data_fts">>
NumTables == Len(TableOrder)

\* The statements of setup_sqlite_fts in the order they are executed.
FtsStatements ==
  <<"decisions_fts", "custom_data_fts", "decisions_fts_insert",
    "decisions_fts_delete", "decisions_fts_update", "custom_data_fts_insert",
    "custom_data_fts_delete", "custom_data_fts_update">>
\* The statements of setup_postgresql_fts.
PgFtsStatements == <<"decisions_fts_idx", "custom_data_fts_idx">>

\* One physical database.  tables: how many tables of TableOrder CREATE
\* TABLE has made or found (a prefix of the order).  vfts: the shadow tables
\* that CREATE VIRTUAL TABLE has made, FTS5 tables over the rows of their
\* source table.  fts: how many statements of setup_sqlite_fts /
\* setup_postgresql_fts have taken effect (a prefix as well).  custom,
\* decisions, progress: the rows in rowid order.  dfts: the full-text index
\* of decisions_fts, pairs (rowid, word); cfts: the rowids indexed in
\* custom_data_fts (no statement of the code reads its words).  cseq, dseq,
\* pseq: the id sequences of a postgresql database.  gone: the ids that
\* delete_decision_by_id has deleted, kept for the properties; no statement
\* of the program reads it.
EmptyDb == [tables |-> 0, vfts |-> {}, fts |-> 0,
            row |-> [k \in ContextKinds |-> None],
            hist |-> [k \in ContextKinds |-> <<>>],
            custom |-> <<>>, decisions |-> <<>>,
            cfts |-> {}, dfts |-> {}, cseq |-> 0, dseq |-> 0,
            gone |-> {}, progress |-> <<>>, pseq |-> 0]

Blank == [op |-> "none", ws |-> "none", kind |-> "none", key |-> <<>>,
          content |-> None, patch |-> None,
          cur |-> None, newc |-> None, ver |-> 0,
          engine |-> 0, creator |-> FALSE,
          status |-> "none", err |-> "none", result |-> None,
          dbarg |-> None, category |-> None, ckey |-> None,
          value |-> None, ts |-> 0, id |-> 0, existing |-> 0,
          tags |-> None, limit |-> None, tagsAll |-> None,
          tagsAny |-> None, fetched |-> <<>>, term |-> <<>>,
          pstatus |-> None, parent |-> None,
          size |-> 0, left |-> 0, pos |-> 0, stmt |-> 0, todo |-> {}]

\* Table name exists in database d, as an ordinary or as a virtual table.
HasTable(d, name) == Index(TableOrder, name) <= d.tables \/ name \in d.vfts
ContextTable(kind) ==
  IF kind = "product" THEN "product_context" ELSE "active_context"
HistoryTable(kind) ==
  IF kind = "product" THEN "product_context_history"
  ELSE "active_context_history"

InitState ==
  /\ engines = [k \in Keys |-> 0]
  /\ slots = [k \in Keys |-> 0]
  /\ nentries = [m \in Modules |-> 0]
  /\ factories = [k \in Keys |-> 0]
  /\ pools = <<>>
  /\ db = [u \in Databases |-> EmptyDb]
  /\ opened = {}
  /\ closed = FALSE
  /\ pc = [t \in Threads |-> "idle"]
  /\ loc = [t \in Threads |-> Blank]

\* The state after import: empty registries, no database touched yet.  The
\* scope fixes who calls, through which modules, on which workspaces, with
\* which CONPORT_DB_TYPE.
\* args holds what the callers pass: the (content, patch_content) pairs of
\* the updates and the (category, key, value, timestamp) entries of
\* log_custom_data.  hist caps the updates started per database.
InitHist(procs, mods, wss, envs, kinds, args, faults, hist) ==
  /\ scope \in {[procs |-> procs, mods |-> mods, ws |-> wss, env |-> e,
                  kinds |-> kinds, faults |-> faults, hist |-> hist,
                  args |-> {a \in args : Len(a) = 2},
                  entries |-> {a \in args : Len(a) = 4}] : e \in envs}
  /\ InitState
InitModules(procs, mods, wss, envs, kinds, args, faults) ==
  InitHist(procs, mods, wss, envs, kinds, args, faults, MaxHist)
InitScoped(procs, wss, envs, kinds, args, faults) ==
  InitModules(procs, {"orm_session"}, wss, envs, kinds, args, faults)
InitWith(procs, kinds, args, faults) ==
  InitScoped(procs, {"w1"}, {Some("sqlite")}, kinds, args, faults)

\* The update arguments a caller may pass (content, patch_content).
DocA == [k \in {"a"} |-> "x"]
PatchB == [k \in {"b"} |-> "x"]
UpdateArgs ==
  {<<Some(d), None>> : d \in Docs}
    \cup {<<None, Some(p)>> : p \in Patches}
    \cup {<<None, None>>}
    \cup {<<Some(DocA), Some(PatchB)>>}

\* The arguments two concurrent callers draw from.
RaceArgs ==
  {<<Some(d), None>> : d \in {EmptyDoc, DocA}}
    \cup {<<None, Some(p)>> : p \in {[k \in {"a"} |-> "x"], PatchB,
                                      [k \in {"a"} |-> DeleteSentinel]}}
    \cup {<<None, None>>}
    \cup {<<Some(DocA), Some(PatchB)>>}

KeyOf(t) == loc[t].key

\* The modules whose store operations (and close functions) the callers use.
StoreMods == scope.mods \ {"orm_models"}

\* Operations whose body is "try: ... except SQLAlchemyError: raise
\* DatabaseError"; get_engine, get_session_factory, get_session,
\* create_tables and init_database let the driver's exception through.
Wraps(op) ==
  op \notin {"open", "engine", "factory", "create_tables", "init_database"}

\* The outcomes of one database round trip: TRUE when it succeeds, FALSE when
\* the driver raises (SQLAlchemyError).  scope.faults names the places where
\* the driver may raise in this run: the three steps of init_database and
\* the round trips of the calls made on a session.
FaultSites == {"create_all", "fts", "defaults", "call"}
DbOkAt(site) == IF site \in scope.faults THEN BOOLEAN ELSE {TRUE}
DbOk == DbOkAt("call")

\* The thread leaves its call with an exception or a value.
Finish(t, status, err, result) ==
  /\ pc' = [pc EXCEPT ![t] = "done"]
  /\ loc' = [loc EXCEPT ![t].status = status, ![t].err = err,
                        ![t].result = result]

\* The backend of a registry key.
BackendOf(k) == k[2]

\* Thread u holds the write transaction of an INSERT it flushed and has not
\* committed.
HoldsWrite(u) ==
  \/ pc[u] = "cd_commit" /\ loc[u].op = "log_custom" /\ loc[u].existing = 0
  \/ pc[u] \in {"dec_commit", "prog_commit"}

\* Threads t and u work on the same physical database: their engines, of
\* whichever modules, were made from URLs that name it.
SameDb(t, u) == DbOf(KeyOf(t)) = DbOf(KeyOf(u))

\* On sqlite a statement that writes waits while another connection to the
\* database file holds an uncommitted INSERT; a statement that changes
\* nothing (IF NOT EXISTS on a name that exists) and a read do not, and
\* neither does a statement that fails while it is prepared (a missing
\* table, a trigger body naming a missing column): it raises at once.
DbLocked(t) ==
  /\ BackendOf(KeyOf(t)) = "sqlite"
  /\ \E u \in Threads \ {t} : HoldsWrite(u) /\ SameDb(u, t)

\* Updates that may still append to the history of the database of key k.
UpdatesInFlight(k) ==
  Cardinality({t \in Threads :
                 /\ loc[t].op = "update" /\ pc[t] \notin {"idle", "done"}
                 /\ DbOf(loc[t].key) = DbOf(k)})
HistTotal(k) == Len(db[DbOf(k)].hist["product"]) + Len(db[DbOf(k)].hist["active"])

\* ------------------------------------------------------------ entry points
\* get_product_context / get_active_context is called.
CallGet(t) ==
  /\ t \in scope.procs /\ pc[t] = "idle"
  /\ \E m \in StoreMods, ws \in scope.ws, kind \in scope.kinds :
       loc' = [loc EXCEPT ![t] =
                 [Blank EXCEPT !.op = "get", !.ws = ws, !.kind = kind,
                    !.key = RegistryKey(m, ws, ConfigDbType(None, scope.env))]]
  /\ pc' = [pc EXCEPT ![t] = "gsf_check"]
  /\ UNCHANGED <<scope, slots, nentries, engines, factories, pools, db, opened,
                 closed>>

\* update_product_context / update_active_context is called.  The arguments
\* are first looked at after the row is fetched (line 73); they are drawn
\* there.
CallUpdate(t) ==
  /\ t \in scope.procs /\ pc[t] = "idle"
  /\ \E m \in StoreMods, ws \in scope.ws, kind \in scope.kinds :
       LET k == RegistryKey(m, ws, ConfigDbType(None, scope.env)) IN
       /\ HistTotal(k) + UpdatesInFlight(k) < scope.hist
       /\ loc' = [loc EXCEPT ![t] =
                    [Blank EXCEPT !.op = "update", !.ws = ws, !.kind = kind,
                       !.key = k]]
  /\ pc' = [pc EXCEPT ![t] = "gsf_check"]
  /\ UNCHANGED <<scope, slots, nentries, engines, factories, pools, db, opened,
                 closed>>

\* get_session(workspace_id, db_type) is called with an explicit backend.
DbArgs ==
  {None} \cup {Some(a) : a \in {"", "sqlite", "postgresql", "postgres",
                                 "mysql", "SQLITE"}}
EnvVals ==
  {None} \cup {Some(e) : e \in {"", "sqlite", "postgresql", "postgres",
                                 "Postgres", "mysql"}}
CallOpen(t) ==
  /\ t \in scope.procs /\ pc[t] = "idle"
  /\ \E m \in StoreMods, ws \in scope.ws, a \in DbArgs :
       loc' = [loc EXCEPT ![t] =
                 [Blank EXCEPT !.op = "open", !.ws = ws, !.dbarg = a,
                    !.key = RegistryKey(m, ws, ConfigDbType(a, scope.env))]]
  /\ pc' = [pc EXCEPT ![t] = "gsf_check"]
  /\ UNCHANGED <<scope, slots, nentries, engines, factories, pools, db, opened,
                 closed>>

\* The db_type arguments of a direct call: left out, or the backend the
\* environment names.
DirectDbArgs == {None, scope.env}

\* get_engine(workspace_id, db_type) of a module is called directly.
CallGetEngine(t) ==
  /\ t \in scope.procs /\ pc[t] = "idle"
  /\ \E m \in scope.mods, ws \in scope.ws, a \in DirectDbArgs :
       loc' = [loc EXCEPT ![t] =
                 [Blank EXCEPT !.op = "engine", !.ws = ws, !.dbarg = a,
                    !.key = RegistryKey(m, ws,
                                        ResolveDbType(m, a, scope.env))]]
  /\ pc' = [pc EXCEPT ![t] = "ge_check"]
  /\ UNCHANGED <<scope, slots, nentries, engines, factories, pools, db, opened,
                 closed>>

\* get_session_factory(workspace_id, db_type) of a module is called directly.
CallGetSessionFactory(t) ==
  /\ t \in scope.procs /\ pc[t] = "idle"
  /\ \E m \in scope.mods, ws \in scope.ws, a \in DirectDbArgs :
       loc' = [loc EXCEPT ![t] =
                 [Blank EXCEPT !.op = "factory", !.ws = ws, !.dbarg = a,
                    !.key = RegistryKey(m, ws,
                                        ResolveDbType(m, a, scope.env))]]
  /\ pc' = [pc EXCEPT ![t] = "gsf_check"]
  /\ UNCHANGED <<scope, slots, nentries, engines, factories, pools, db, opened,
                 closed>>

\* orm_models.create_tables(workspace_id, db_type) is called; its first
\* statement is engine = get_engine(workspace_id, db_type).
CallCreateTables(t) ==
  /\ t \in scope.procs /\ pc[t] = "idle"
  /\ "orm_models" \in scope.mods
  /\ \E ws \in scope.ws, a \in DirectDbArgs :
       loc' = [loc EXCEPT ![t] =
                 [Blank EXCEPT !.op = "create_tables", !.ws = ws, !.dbarg = a,
                    !.key = RegistryKey("orm_models", ws,
                              ResolveDbType("orm_models", a, scope.env))]]
  /\ pc' = [pc EXCEPT ![t] = "ge_check"]
  /\ UNCHANGED <<scope, slots, nentries, engines, factories, pools, db, opened,
                 closed>>

\* orm_init.init_database(engine, config) is called on an engine of a
\* registry, with the configuration the engine was made from.
CallInitDatabase(t) ==
  /\ t \in scope.procs /\ pc[t] = "idle"
  /\ \E k \in Keys :
       /\ ModOf(k) \in scope.mods /\ k[1] \in scope.ws /\ engines[k] # 0
       /\ loc' = [loc EXCEPT ![t] =
                    [Blank EXCEPT !.op = "init_database", !.ws = k[1],
                       !.key = k, !.engine = engines[k]]]
  /\ pc' = [pc EXCEPT ![t] = "init_tables"]
  /\ UNCHANGED <<scope, slots, nentries, engines, factories, pools, db,
                 opened, closed>>

\* orm_init.init_default_contexts(engine) is called on an engine of a
\* registry.
CallInitDefaultContexts(t) ==
  /\ t \in scope.procs /\ pc[t] = "idle"
  /\ \E k \in Keys :
       /\ ModOf(k) \in scope.mods /\ k[1] \in scope.ws /\ engines[k] # 0
       /\ loc' = [loc EXCEPT ![t] =
                    [Blank EXCEPT !.op = "init_default_contexts", !.ws = k[1],
                       !.key = k, !.engine = engines[k]]]
  /\ pc' = [pc EXCEPT ![t] = "init_defaults"]
  /\ UNCHANGED <<scope, slots, nentries, engines, factories, pools, db,
                 opened, closed>>

\* orm_init.setup_sqlite_fts(engine) or setup_postgresql_fts(engine) is
\* called on an engine of a registry.
CallSetupFts(t) ==
  /\ t \in scope.procs /\ pc[t] = "idle"
  /\ \E k \in Keys, fn \in DbTypes :
       /\ ModOf(k) \in scope.mods /\ k[1] \in scope.ws /\ engines[k] # 0
       /\ loc' = [loc EXCEPT ![t] =
                    [Blank EXCEPT !.op = "setup_fts", !.ws = k[1],
                       !.key = k, !.engine = engines[k], !.dbarg = Some(fn),
                       !.stmt = 1]]
  /\ pc' = [pc EXCEPT ![t] = "init_fts"]
  /\ UNCHANGED <<scope, slots, nentries, engines, factories, pools, db,
                 opened, closed>>

\* get_session: "return session_factory()", a session on the bound engine.
OpenReturn(t) ==
  /\ pc[t] = "open_ret"
  /\ Finish(t, "ok", "none", Some(loc[t].engine))
  /\ UNCHANGED <<scope, slots, nentries, engines, factories, pools, db, opened,
                 closed>>

\* The caller takes the outcome; the thread is free for the next call.
Return(t) ==
  /\ pc[t] = "done"
  /\ pc' = [pc EXCEPT ![t] = "idle"]
  /\ loc' = [loc EXCEPT ![t] = Blank]
  /\ UNCHANGED <<scope, slots, nentries, engines, factories, pools, db, opened,
                 closed>>

\* ------------------------------------------------- orm_session.get_session
\* get_session_factory: "if key not in _session_factories".
GetSessionFactoryCheck(t) ==
  /\ pc[t] = "gsf_check"
  /\ pc' = [pc EXCEPT ![t] = IF Cached(factories, KeyOf(t)) THEN "gsf_ret"
                             ELSE "ge_check"]
  /\ UNCHANGED <<scope, slots, nentries, engines, factories, pools, db, opened,
                 closed, loc>>

\* get_engine: "if key not in _engines".
GetEngineCheck(t) ==
  /\ pc[t] = "ge_check"
  /\ pc' = [pc EXCEPT ![t] = IF Cached(engines, KeyOf(t)) THEN "ge_ret"
                             ELSE "ge_create"]
  /\ UNCHANGED <<scope, slots, nentries, engines, factories, pools, db, opened,
                 closed, loc>>

\* get_engine: url = config.get_connection_url() (orm_models:
\* get_database_url; ValueError for a backend that is neither sqlite nor
\* postgresql), then _engines[key] = create_engine(url, ...).  A key that is
\* in the dict keeps its entry and so its position; a new key takes the next
\* entry of the dict's entry table.  Entries are counted from the last
\* clear(): del leaves a hole, clear() gives the dict an empty table.  (The
\* table is first rebuilt at the sixth entry, out of reach of MaxEngines.)
\* orm_models.get_engine returns right away; the other modules go on to
\* init_database.
GetEngineCreate(t) ==
  /\ pc[t] = "ge_create"
  /\ IF UrlOf(KeyOf(t)) = None
     THEN /\ Finish(t, "ValueError", "ValueError", None)
          /\ UNCHANGED <<pools, engines, slots, nentries>>
     ELSE LET m == ModOf(KeyOf(t))
              isNew == engines[KeyOf(t)] = 0
          IN
          /\ Len(pools) < MaxEngines
          /\ pools' = Append(pools, [key |-> KeyOf(t), disposed |-> FALSE])
          /\ engines' = [engines EXCEPT ![KeyOf(t)] = Len(pools) + 1]
          /\ slots' = [slots EXCEPT ![KeyOf(t)] =
                         IF isNew THEN nentries[m] + 1 ELSE @]
          /\ nentries' = [nentries EXCEPT ![m] = IF isNew THEN @ + 1 ELSE @]
          /\ loc' = [loc EXCEPT ![t].creator = TRUE]
          /\ pc' = [pc EXCEPT ![t] = IF m = "orm_models"
                                     THEN "ge_ret" ELSE "init_tables"]
  /\ UNCHANGED <<scope, factories, db, opened, closed>>

\* What the caller of operation op sees when a round trip of the bootstrap
\* raises.
Raised(op) == IF Wraps(op) THEN "DatabaseError" ELSE "OperationalError"

\* What the caller of operation op sees when CREATE TABLE names a table that
\* exists: sqlite3.OperationalError, psycopg2's DuplicateTable (a
\* ProgrammingError).
RaisedExists(op, k) ==
  IF Wraps(op) THEN "DatabaseError"
  ELSE IF BackendOf(k) = "sqlite" THEN "OperationalError"
  ELSE "ProgrammingError"

\* Base.metadata.create_all(engine), first half: create_all asks for each
\* table of the metadata whether it exists (a virtual table does) and
\* collects the missing ones.
CreateAllCheck(t, create, after) ==
  \E ok \in DbOkAt("create_all") :
    LET d == db[DbOf(KeyOf(t))]
        missing == {i \in 1..NumTables : ~HasTable(d, TableOrder[i])}
    IN
    IF ~ok THEN Finish(t, Raised(loc[t].op), "SQLAlchemyError", None)
    ELSE /\ pc' = [pc EXCEPT ![t] = IF missing = {} THEN after ELSE create]
         /\ loc' = [loc EXCEPT ![t].todo = missing, ![t].stmt = 1]

\* Base.metadata.create_all(engine), second half: CREATE TABLE for the tables
\* found missing, in order.  On sqlite every CREATE TABLE is a round trip
\* that is durable when it returns (the driver opens no transaction for
\* DDL), so one step creates one table and a failure leaves the tables made
\* before it; on postgresql the statements share one transaction, which the
\* step commits or rolls back as a whole.  A table that another caller has
\* created since the check makes the statement fail ("table ... already
\* exists") when it is prepared.
CreateAllCreate(t, after) ==
  LET k == KeyOf(t)
      d == db[DbOf(k)]
      j == CHOOSE i \in loc[t].todo : \A q \in loc[t].todo : i <= q
      made == IF BackendOf(k) = "sqlite" THEN {j} ELSE loc[t].todo
      last == CHOOSE i \in made : \A q \in made : q <= i
      left == loc[t].todo \ made
  IN
  IF \E i \in made : HasTable(d, TableOrder[i])
  THEN /\ Finish(t, RaisedExists(loc[t].op, k), "already exists", None)
       /\ UNCHANGED db
  ELSE /\ ~DbLocked(t)
       /\ \E ok \in DbOkAt("create_all") :
            IF ~ok
            THEN /\ Finish(t, Raised(loc[t].op), "SQLAlchemyError", None)
                 /\ UNCHANGED db
            ELSE /\ db' = [db EXCEPT ![DbOf(k)].tables = last]
                 /\ pc' = [pc EXCEPT ![t] = IF left = {} THEN after ELSE @]
                 /\ loc' = [loc EXCEPT ![t].todo = left]

\* get_engine: init_database(_engines[key], config), whose first statement
\* is Base.metadata.create_all(engine).  A direct call of init_database is
\* handed the engine.  A failure of create_all is not caught by
\* init_database; the entry stays in _engines.
InitDatabaseCheck(t) ==
  /\ pc[t] = "init_tables"
  /\ IF loc[t].op # "init_database" /\ engines[KeyOf(t)] = 0
     THEN Finish(t, "KeyError", "KeyError", None)
     ELSE CreateAllCheck(t, "init_create", "init_fts")
  /\ UNCHANGED <<scope, slots, nentries, engines, factories, pools, db,
                 opened, closed>>

InitDatabaseCreateAll(t) ==
  /\ pc[t] = "init_create"
  /\ CreateAllCreate(t, "init_fts")
  /\ UNCHANGED <<scope, slots, nentries, engines, factories, pools, opened,
                 closed>>

\* The statements of setup_sqlite_fts / setup_postgresql_fts.
SetupFtsDone(k) ==
  IF BackendOf(k) = "sqlite" THEN Len(FtsStatements)
  ELSE Len(PgFtsStatements)

\* setup_sqlite_fts / setup_postgresql_fts: every failure is logged and
\* swallowed, the statements after it are not executed.  On sqlite every
\* statement is a round trip that is durable when it returns, so one step
\* executes one statement.  CREATE VIRTUAL TABLE IF NOT EXISTS makes an FTS5
\* table unless the name is taken (after create_all it is, by the ordinary
\* table of the mapped class); CREATE TRIGGER IF NOT EXISTS fails when the
\* table it is ON is missing; IF NOT EXISTS on a name that exists changes
\* nothing.  On postgresql the two CREATE INDEX, each on a table that must
\* exist, share the transaction of conn.commit().  The statements of the
\* function written for the other backend are no SQL of this one: the first
\* of them raises.  Only a statement that is executed and writes waits for
\* the lock of the database file.
SetupFts(t) ==
  /\ pc[t] = "init_fts"
  /\ LET k == KeyOf(t)
         d == db[DbOf(k)]
         n == d.fts
         j == loc[t].stmt
         sqlite == BackendOf(k) = "sqlite"
         direct == loc[t].op = "setup_fts"
         last == IF sqlite THEN j ELSE SetupFtsDone(k)
         on == IF j <= 5 THEN "decisions" ELSE "custom_data"
         virtual == sqlite /\ j <= 2 /\ ~HasTable(d, FtsStatements[j])
         fails ==
           \/ direct /\ loc[t].dbarg # Some(BackendOf(k))
           \/ sqlite /\ j > 2 /\ n < j /\ ~HasTable(d, on)
           \/ ~sqlite /\ n < last /\ ~HasTable(d, "custom_data")
         writes == sqlite /\ (virtual \/ (j > 2 /\ n < j))
     IN
     \E ok \in DbOkAt("fts") :
       IF ~ok \/ fails
       THEN /\ IF direct THEN Finish(t, "ok", "none", None)
               ELSE /\ pc' = [pc EXCEPT ![t] = "init_defaults"]
                    /\ loc' = [loc EXCEPT ![t].stmt = 0]
            /\ UNCHANGED db
       ELSE /\ writes => ~DbLocked(t)
            /\ db' = [db EXCEPT
                        ![DbOf(k)].fts = IF n < last THEN last ELSE @,
                        ![DbOf(k)].vfts = IF virtual
                                          THEN @ \cup {FtsStatements[j]}
                                          ELSE @]
            /\ IF last < SetupFtsDone(k)
               THEN /\ loc' = [loc EXCEPT ![t].stmt = j + 1]
                    /\ UNCHANGED pc
               ELSE IF direct THEN Finish(t, "ok", "none", None)
               ELSE /\ pc' = [pc EXCEPT ![t] = "init_defaults"]
                    /\ loc' = [loc EXCEPT ![t].stmt = 0]
  /\ UNCHANGED <<scope, slots, nentries, engines, factories, pools, opened,
                 closed>>

\* init_default_contexts: in one transaction query the row id=1 of each kind
\* and insert the missing ones with content {}; every failure (a missing
\* table among them) is logged and swallowed.
DefaultRows(rows) ==
  [k \in ContextKinds |->
     IF rows[k] = None THEN Some(process_bind_param(EmptyDoc)) ELSE rows[k]]
InitDefaultContexts(t) ==
  /\ pc[t] = "init_defaults"
  /\ LET k == KeyOf(t)
         d == db[DbOf(k)]
         writes == HasTable(d, "active_context") /\ DefaultRows(d.row) # d.row
     IN
     /\ writes => ~DbLocked(t)
     /\ \E ok \in DbOkAt("defaults") :
          db' = [db EXCEPT ![DbOf(k)].row =
                   IF ok /\ HasTable(d, "active_context")
                   THEN DefaultRows(@) ELSE @]
  /\ IF loc[t].op \in {"init_database", "init_default_contexts"}
     THEN Finish(t, "ok", "none", None)
     ELSE pc' = [pc EXCEPT ![t] = "ge_ret"] /\ UNCHANGED loc
  /\ UNCHANGED <<scope, slots, nentries, engines, factories, pools, opened,
                 closed>>

\* get_engine: "return _engines[key]", to get_session_factory, to
\* create_tables or to the caller.
GetEngineReturn(t) ==
  /\ pc[t] = "ge_ret"
  /\ IF engines[KeyOf(t)] = 0
     THEN /\ Finish(t, "KeyError", "KeyError", None)
          /\ UNCHANGED opened
     ELSE /\ IF loc[t].op = "engine"
             THEN /\ loc' = [loc EXCEPT ![t].engine = engines[KeyOf(t)],
                                        ![t].status = "ok",
                                        ![t].result = Some(engines[KeyOf(t)])]
                  /\ pc' = [pc EXCEPT ![t] = "done"]
             ELSE /\ loc' = [loc EXCEPT ![t].engine = engines[KeyOf(t)]]
                  /\ pc' = [pc EXCEPT ![t] = IF loc[t].op = "create_tables"
                                             THEN "ct_tables" ELSE "gsf_store"]
          /\ opened' = IF loc[t].creator THEN opened \cup {KeyOf(t)} ELSE opened
  /\ UNCHANGED <<scope, slots, nentries, engines, factories, pools, db, closed>>

\* get_session_factory: _session_factories[key] = sessionmaker(bind=engine).
GetSessionFactoryStore(t) ==
  /\ pc[t] = "gsf_store"
  /\ factories' = [factories EXCEPT ![KeyOf(t)] = loc[t].engine]
  /\ pc' = [pc EXCEPT ![t] = "gsf_ret"]
  /\ UNCHANGED <<scope, slots, nentries, engines, pools, db, opened, closed,
                 loc>>

\* Where each operation continues once get_session has returned.
AfterSession(op) ==
  CASE op = "get" -> "get_read"
    [] op = "update" -> "upd_read"
    [] op = "open" -> "open_ret"
    [] op = "log_custom" -> "cd_query"
    [] op = "get_custom" -> "cd_list"
    [] op = "log_decision" -> "dec_insert"
    [] op = "get_decisions" -> "dec_list"
    [] op = "delete_decision" -> "dec_delete"
    [] op = "search_decisions" -> "dec_search"
    [] op = "log_progress" -> "prog_insert"
    [] op = "get_progress" -> "prog_list"

\* get_session_factory: "return _session_factories[key]"; get_session then
\* makes a session bound to that factory's engine.
GetSessionFactoryReturn(t) ==
  /\ pc[t] = "gsf_ret"
  /\ IF factories[KeyOf(t)] = 0
     THEN Finish(t, "KeyError", "KeyError", None)
     ELSE IF loc[t].op = "factory"
     THEN /\ loc' = [loc EXCEPT ![t].engine = factories[KeyOf(t)],
                                ![t].status = "ok",
                                ![t].result = Some(factories[KeyOf(t)])]
          /\ pc' = [pc EXCEPT ![t] = "done"]
     ELSE /\ loc' = [loc EXCEPT ![t].engine = factories[KeyOf(t)]]
          /\ pc' = [pc EXCEPT ![t] = AfterSession(loc[t].op)]
  /\ UNCHANGED <<scope, slots, nentries, engines, factories, pools, db, opened,
                 closed>>

\* ------------------------------------------- orm_models.create_tables
\* create_tables: Base.metadata.create_all(engine), on the engine get_engine
\* returned.
CreateTablesCheck(t) ==
  /\ pc[t] = "ct_tables"
  /\ CreateAllCheck(t, "ct_create", "ct_fts")
  /\ UNCHANGED <<scope, slots, nentries, engines, factories, pools, db,
                 opened, closed>>

CreateTablesCreateAll(t) ==
  /\ pc[t] = "ct_create"
  /\ CreateAllCreate(t, "ct_fts")
  /\ UNCHANGED <<scope, slots, nentries, engines, factories, pools, opened,
                 closed>>

\* create_tables: _create_sqlite_fts_tables / _create_postgresql_fts_indexes
\* open a connection and pass a plain string to conn.execute, which
\* SQLAlchemy 2 refuses (ObjectNotExecutableError, an ArgumentError) before
\* any statement reaches the database.
CreateFtsTables(t) ==
  /\ pc[t] = "ct_fts"
  /\ \E ok \in DbOkAt("fts") :
       IF ok
       THEN Finish(t, "ObjectNotExecutableError", "ArgumentError", None)
       ELSE Finish(t, Raised(loc[t].op), "SQLAlchemyError", None)
  /\ UNCHANGED <<scope, slots, nentries, engines, factories, pools, db, opened,
                 closed>>

\* ------------------------------------------- orm_contexts: get and update
\* get_product_context / get_active_context: query the row id=1.
GetContextRead(t) ==
  /\ pc[t] = "get_read"
  /\ \E ok \in DbOk :
       LET d == db[DbOf(KeyOf(t))] IN
       IF ~ok \/ ~HasTable(d, ContextTable(loc[t].kind))
       THEN Finish(t, "DatabaseError", "SQLAlchemyError", None)
       ELSE IF d.row[loc[t].kind] = None
       THEN Finish(t, "DatabaseError", "row not found", None)
       ELSE Finish(t, "ok", "none",
                   Some(process_result_value(TheVal(d.row[loc[t].kind]))))
  /\ UNCHANGED <<scope, slots, nentries, engines, factories, pools, db, opened,
                 closed>>

\* update_*_context: fetch the row, take "orm_context.content or {}", and
\* determine the new content from update_args (lines 66-84).
UpdateContextRead(t) ==
  /\ pc[t] = "upd_read"
  /\ \E ok \in DbOk, a \in scope.args :
       LET d == db[DbOf(KeyOf(t))]
           args == [loc EXCEPT ![t].content = a[1], ![t].patch = a[2]]
       IN
       IF ~ok \/ ~HasTable(d, ContextTable(loc[t].kind))
       THEN /\ pc' = [pc EXCEPT ![t] = "done"]
            /\ loc' = [args EXCEPT ![t].status = "DatabaseError",
                                   ![t].err = "SQLAlchemyError"]
       ELSE IF d.row[loc[t].kind] = None
       THEN /\ pc' = [pc EXCEPT ![t] = "done"]
            /\ loc' = [args EXCEPT ![t].status = "DatabaseError",
                                   ![t].err = "row not found"]
       ELSE LET cur == process_result_value(TheVal(d.row[loc[t].kind]))
                new == NewFinalContent(cur, a[1], a[2])
            IN  IF new = None
                THEN /\ pc' = [pc EXCEPT ![t] = "done"]
                     /\ loc' = [args EXCEPT ![t].status = "DatabaseError",
                                            ![t].err = "ValueError"]
                ELSE /\ loc' = [args EXCEPT ![t].cur = Some(cur),
                                            ![t].newc = new]
                     /\ pc' = [pc EXCEPT ![t] = "upd_version"]
  /\ UNCHANGED <<scope, slots, nentries, engines, factories, pools, db, opened,
                 closed>>

\* update_*_context: new_version = get_latest_context_version(...) + 1.
UpdateContextVersion(t) ==
  /\ pc[t] = "upd_version"
  /\ \E ok \in DbOk :
       loc' = [loc EXCEPT ![t].ver =
                 get_latest_context_version(
                   db[DbOf(KeyOf(t))].hist[loc[t].kind],
                   ~ok \/ ~HasTable(db[DbOf(KeyOf(t))],
                                    HistoryTable(loc[t].kind))) + 1]
  /\ pc' = [pc EXCEPT ![t] = "upd_commit"]
  /\ UNCHANGED <<scope, slots, nentries, engines, factories, pools, db, opened,
                 closed>>

\* Mutation of CommitWrites: the new document is written to the rows of both
\* kinds.
CommitWrites_BothKinds(d, kind, ver, cur, new) ==
  [d EXCEPT
     !.hist[kind] = add_context_history_entry(@, ver, cur, ChangeSource(kind)),
     !.row = [x \in ContextKinds |-> Some(process_bind_param(new))]]

\* Mutation of CommitWrites: the history entry is written, the row is not.
CommitWrites_HistoryOnly(d, kind, ver, cur, new) ==
  [d EXCEPT
     !.hist[kind] = add_context_history_entry(@, ver, cur, ChangeSource(kind))]

\* The flush of session.commit(): the INSERT of the pending history entry
\* and, when the assigned content differs from the loaded one, the UPDATE of
\* the row id=1.
CommitWrites(d, kind, ver, cur, new) ==
  [d EXCEPT
     !.hist[kind] = add_context_history_entry(@, ver, cur, ChangeSource(kind)),
     !.row[kind] = IF new # cur THEN Some(process_bind_param(new)) ELSE @]

\* update_*_context: add_context_history_entry, orm_context.content = ...,
\* session.commit().  The flush emits the UPDATE of the row id=1 (when the
\* content changed) before the INSERT of the history entry: the unit of
\* work takes the mapped classes in the order of their names.  The INSERT
\* into a missing history table fails when it is prepared; a statement that
\* is executed waits for the lock of the database file.  On failure the
\* session is closed and rolled back.
UpdateContextCommit(t) ==
  /\ pc[t] = "upd_commit"
  /\ \E ok \in DbOk :
       LET d == db[DbOf(KeyOf(t))]
           changed == TheVal(loc[t].newc) # TheVal(loc[t].cur)
       IN
       IF ~ok
       THEN /\ Finish(t, "DatabaseError", "SQLAlchemyError", None)
            /\ UNCHANGED db
       ELSE IF ~HasTable(d, HistoryTable(loc[t].kind))
       THEN /\ changed => ~DbLocked(t)
            /\ Finish(t, "DatabaseError", "SQLAlchemyError", None)
            /\ UNCHANGED db
       ELSE /\ ~DbLocked(t)
            /\ db' = [db EXCEPT ![DbOf(KeyOf(t))] =
                        CommitWrites(@, loc[t].kind, loc[t].ver,
                                     TheVal(loc[t].cur), TheVal(loc[t].newc))]
            /\ Finish(t, "ok", "none", None)
  /\ UNCHANGED <<scope, slots, nentries, engines, factories, pools, opened,
                 closed>>

\* ------------------------------------------------ the tables of the entities
\* The trigger of that name exists on database d of key k: its CREATE
\* TRIGGER statement of setup_sqlite_fts has taken effect.
HasTrigger(d, k, name) ==
  BackendOf(k) = "sqlite" /\ Index(FtsStatements, name) <= d.fts

DecisionFtsColumns == {"rowid", "summary", "rationale",
                       "implementation_details", "tags"}
CustomFtsColumns == {"rowid", "category", "key", "value_text"}

\* The columns of a shadow table.  Made by CREATE VIRTUAL TABLE it is an
\* FTS5 table: the columns of the statement, rowid and the column named
\* after the table.  Made by create_all (the later CREATE VIRTUAL TABLE IF
\* NOT EXISTS finds the name taken and does nothing) it is an ordinary table
\* with the single column rowid.
ShadowColumns(d, name) ==
  IF name \in d.vfts
  THEN {name} \cup (IF name = "decisions_fts" THEN DecisionFtsColumns
                    ELSE CustomFtsColumns)
  ELSE IF HasTable(d, name) THEN {"rowid"}
  ELSE {}

\* The trigger bodies of setup_sqlite_fts are compiled with the statement
\* that fires them.  The insert body (the second statement of the update
\* body too) names the searchable columns: the firing statement raises
\* OperationalError ("no column named ...") while it is prepared, before
\* any row is looked at, when the shadow table lacks one of them.  The
\* delete body needs rowid only.
TriggerInsertRaises(cols, shadow) == ~(cols \subseteq shadow)

\* "DELETE FROM decisions_fts WHERE rowid = old.id" in the AFTER DELETE
\* trigger.  An FTS5 table with content='decisions' looks the words of the
\* row up in decisions, where the row is gone by then: the index keeps them.
TriggerDelete(d, index, id) ==
  IF "decisions_fts" \in d.vfts THEN index
  ELSE {e \in index : e[1] # id}

\* The columns of custom_data.  On a DELETE of one of its rows the FTS5
\* table with content='custom_data' reads the row from custom_data by the
\* names of its own columns; custom_data has no column value_text, so the
\* DELETE of the update body raises OperationalError when it is executed.
CustomDataColumns == {"id", "timestamp", "category", "key", "value"}
ContentReadRaises(d) ==
  /\ "custom_data_fts" \in d.vfts
  /\ ~(CustomFtsColumns \ {"rowid"} \subseteq CustomDataColumns)

\* The largest id of a table, 0 when it is empty.
MaxId(tab) ==
  IF tab = <<>> THEN 0
  ELSE CHOOSE m \in {tab[i].id : i \in 1..Len(tab)} :
         \A i \in 1..Len(tab) : tab[i].id <= m

\* The id an INSERT assigns: the next value of the sequence on postgresql,
\* one more than the largest rowid on sqlite.
NextId(k, tab, seqval) ==
  IF BackendOf(k) = "postgresql" THEN seqval + 1 ELSE MaxId(tab) + 1

\* Room for one more INSERT under the bound: rows on sqlite, sequence values
\* on postgresql (a failed transaction does not give its value back).
InsertRoom(k, tab, seqval, inflight, max) ==
  IF BackendOf(k) = "postgresql" THEN seqval + inflight < max
  ELSE Len(tab) + inflight < max

\* Mutation of DeleteById: every row goes.
DeleteById_All(tab, id) == <<>>

\* The table without the rows of the given id.
DeleteById(tab, id) == SelectSeq(tab, LAMBDA r : r.id # id)

\* ------------------------------------------------------- orm_custom_data
CategoryOrder == <<"c1", "c2">>
CKeyOrder == <<"k1", "k2">>
Timestamps == {1, 2}
DocAy == [k \in {"a"} |-> "y"]
CustomVals == {DocA, DocAy}

\* The entries (category, key, value, timestamp) callers log.
CustomPairs == {<<"c1", "k1">>, <<"c1", "k2">>, <<"c2", "k1">>}
CustomEntries ==
  {<<p[1], p[2], v, ts>> : p \in CustomPairs, v \in CustomVals,
                           ts \in Timestamps}
\* The entries two concurrent callers draw from.
RaceEntries ==
  {<<"c1", "k1", DocA, 1>>, <<"c1", "k1", DocAy, 2>>, <<"c1", "k2", DocA, 1>>}

\* Python truth of an optional string: None and "" are false.
Truthy(o) == o # None /\ TheVal(o) # ""

\* Positions of the rows of a (category, key) pair.
PairRows(tab, category, key) ==
  {i \in 1..Len(tab) : tab[i].category = category /\ tab[i].key = key}

\* A write of thread t to its database has to wait: another thread holds an
\* uncommitted INSERT on it (sqlite: the lock of the database file;
\* postgresql: the unique index entry of the same pair).
WriteBlocked(t) ==
  \E u \in Threads \ {t} :
    /\ HoldsWrite(u) /\ SameDb(u, t)
    /\ \/ BackendOf(KeyOf(t)) = "sqlite"
       \/ loc[u].category = loc[t].category /\ loc[u].ckey = loc[t].ckey

\* The calls of operation op in progress on the database of key k.
InFlight(op, k) ==
  Cardinality({t \in Threads :
                 /\ loc[t].op = op /\ pc[t] \notin {"idle", "done"}
                 /\ DbOf(loc[t].key) = DbOf(k)})
LogsInFlight(k) == InFlight("log_custom", k)

\* log_custom_data is called.  The entry is first looked at by the query
\* (line 20); it is drawn there.
CallLogCustom(t) ==
  /\ t \in scope.procs /\ pc[t] = "idle"
  /\ \E m \in StoreMods, ws \in scope.ws :
       LET k == RegistryKey(m, ws, ConfigDbType(None, scope.env)) IN
       /\ InsertRoom(k, db[DbOf(k)].custom, db[DbOf(k)].cseq, LogsInFlight(k), MaxCustom)
       /\ loc' = [loc EXCEPT ![t] =
                    [Blank EXCEPT !.op = "log_custom", !.ws = ws, !.key = k]]
  /\ pc' = [pc EXCEPT ![t] = "gsf_check"]
  /\ UNCHANGED <<scope, slots, nentries, engines, factories, pools, db, opened,
                 closed>>

\* log_custom_data: existing = query.filter_by(category, key).first().
CustomDataQuery(t) ==
  /\ pc[t] = "cd_query"
  /\ \E ok \in DbOk, e \in scope.entries :
       LET d == db[DbOf(KeyOf(t))]
           args == [loc EXCEPT ![t].category = Some(e[1]),
                               ![t].ckey = Some(e[2]),
                               ![t].value = Some(e[3]), ![t].ts = e[4]]
           found == PairRows(d.custom, Some(e[1]), Some(e[2]))
       IN
       IF ~ok \/ ~HasTable(d, "custom_data")
       THEN /\ pc' = [pc EXCEPT ![t] = "done"]
            /\ loc' = [args EXCEPT ![t].status = "DatabaseError",
                                   ![t].err = "SQLAlchemyError"]
       ELSE IF found = {}
       THEN /\ pc' = [pc EXCEPT ![t] = "cd_flush"]
            /\ loc' = args
       ELSE \E i \in found :
              /\ \A j \in found : i <= j
              /\ pc' = [pc EXCEPT ![t] = "cd_commit"]
              /\ loc' = [args EXCEPT ![t].existing = d.custom[i].id,
                                     ![t].cur = Some(d.custom[i]),
                                     ![t].id = d.custom[i].id]
  /\ UNCHANGED <<scope, slots, nentries, engines, factories, pools, db, opened,
                 closed>>

\* The row log_custom_data inserts.
NewCustomRow(t, id) ==
  [id |-> id, timestamp |-> loc[t].ts, category |-> loc[t].category,
   key |-> loc[t].ckey, value |-> process_bind_param(TheVal(loc[t].value))]

\* log_custom_data, "Create new": session.add(orm_data); session.flush().
\* The INSERT runs in the session's transaction: the insert trigger is
\* compiled and the unique constraint on (category, key) checked now, the
\* row becomes visible at commit.  The INSERT whose trigger body does not
\* compile raises at once; the INSERT that is executed waits for the write
\* another caller holds.
CustomDataFlush(t) ==
  /\ pc[t] = "cd_flush"
  /\ \E ok \in DbOk :
       LET k == KeyOf(t)
           d == db[DbOf(k)]
           id == NextId(k, d.custom, d.cseq)
           used == IF BackendOf(k) = "postgresql" THEN 1 ELSE 0
       IN
       IF ~ok
       THEN \* the sequence value is lost when the failure came after the
            \* id was drawn
            /\ Finish(t, "DatabaseError", "SQLAlchemyError", None)
            /\ \E lost \in {0, used} :
                 db' = [db EXCEPT ![DbOf(k)].cseq = @ + lost]
       ELSE IF HasTrigger(d, k, "custom_data_fts_insert")
                 /\ TriggerInsertRaises(CustomFtsColumns,
                                        ShadowColumns(d, "custom_data_fts"))
       THEN /\ Finish(t, "DatabaseError", "OperationalError", None)
            /\ UNCHANGED db
       ELSE IF PairRows(d.custom, loc[t].category, loc[t].ckey) # {}
       THEN /\ ~WriteBlocked(t)
            /\ Finish(t, "DatabaseError", "IntegrityError", None)
            /\ db' = [db EXCEPT ![DbOf(k)].cseq = @ + used]
       ELSE /\ ~WriteBlocked(t)
            /\ loc' = [loc EXCEPT ![t].id = id]
            /\ pc' = [pc EXCEPT ![t] = "cd_commit"]
            /\ db' = [db EXCEPT ![DbOf(k)].cseq = @ + used]
  /\ UNCHANGED <<scope, slots, nentries, engines, factories, pools, opened,
                 closed>>

\* log_custom_data, "Update existing": the assignments of lines 26-27.
UpsertRow(row, ts, valueText) ==
  [row EXCEPT !.timestamp = ts, !.value = valueText]

\* The UPDATE the unit of work emits: SET the changed columns only.
UpdateChanged(row, loaded, assigned) ==
  [row EXCEPT
     !.timestamp = IF assigned.timestamp # loaded.timestamp
                   THEN assigned.timestamp ELSE row.timestamp,
     !.value = IF assigned.value # loaded.value
               THEN assigned.value ELSE row.value]

\* log_custom_data: session.commit().  After "Create new" it commits the
\* flushed row.  After "Update existing" it first flushes an UPDATE of the
\* columns whose assigned value differs from the loaded one (none: no
\* statement); the UPDATE is compiled with the update trigger, whose second
\* statement is the insert body, and fails with StaleDataError when the row
\* is gone; on a row that is there the update trigger fires.  Only an
\* UPDATE that is executed waits for the write another caller holds.
CustomDataCommit(t) ==
  /\ pc[t] = "cd_commit"
  /\ \E ok \in DbOk :
       LET k == KeyOf(t)
           d == db[DbOf(k)]
           loaded == TheVal(loc[t].cur)
           assigned == UpsertRow(loaded, loc[t].ts,
                                 process_bind_param(TheVal(loc[t].value)))
           at == {i \in 1..Len(d.custom) : d.custom[i].id = loc[t].existing}
       IN
       IF ~ok
       THEN /\ Finish(t, "DatabaseError", "SQLAlchemyError", None)
            /\ UNCHANGED db
       ELSE IF loc[t].existing = 0
       THEN /\ db' = [db EXCEPT
                        ![DbOf(k)].custom =
                          Append(@, NewCustomRow(t, loc[t].id)),
                        ![DbOf(k)].cfts =
                          IF HasTrigger(d, k, "custom_data_fts_insert")
                          THEN @ \cup {loc[t].id} ELSE @]
            /\ Finish(t, "ok", "none", Some(loc[t].id))
       ELSE IF assigned = loaded
       THEN /\ Finish(t, "ok", "none", Some(loc[t].id))
            /\ UNCHANGED db
       ELSE IF HasTrigger(d, k, "custom_data_fts_update")
                 /\ TriggerInsertRaises(CustomFtsColumns,
                                        ShadowColumns(d, "custom_data_fts"))
       THEN /\ Finish(t, "DatabaseError", "OperationalError", None)
            /\ UNCHANGED db
       ELSE IF at = {}
       THEN /\ ~WriteBlocked(t)
            /\ Finish(t, "DatabaseError", "StaleDataError", None)
            /\ UNCHANGED db
       ELSE IF HasTrigger(d, k, "custom_data_fts_update")
                 /\ ContentReadRaises(d)
       THEN /\ ~WriteBlocked(t)
            /\ Finish(t, "DatabaseError", "OperationalError", None)
            /\ UNCHANGED db
       ELSE /\ ~WriteBlocked(t)
            /\ db' = [db EXCEPT ![DbOf(k)].custom =
                        [i \in 1..Len(d.custom) |->
                           IF i \in at
                           THEN UpdateChanged(d.custom[i], loaded, assigned)
                           ELSE d.custom[i]]]
            /\ Finish(t, "ok", "none", Some(loc[t].id))
  /\ UNCHANGED <<scope, slots, nentries, engines, factories, pools, opened,
                 closed>>

\* Mutation of KeyWithoutCategory: the guard never fires.
KeyWithoutCategory_Off(category, key) == FALSE

\* get_custom_data: "if key and not category".
KeyWithoutCategory(category, key) == Truthy(key) /\ ~Truthy(category)

\* The filter arguments a caller may pass.
CategoryArgs == {None, Some(""), Some("c1"), Some("c2")}
CKeyArgs == {None, Some(""), Some("k1")}

\* get_custom_data is called: the guard of line 54 raises ValueError before
\* anything else happens.
CallGetCustom(t) ==
  /\ t \in scope.procs /\ pc[t] = "idle"
  /\ \E m \in StoreMods, ws \in scope.ws, c \in CategoryArgs, key \in CKeyArgs :
       LET call == [Blank EXCEPT !.op = "get_custom", !.ws = ws,
                       !.category = c, !.ckey = key,
                       !.key = RegistryKey(m, ws, ConfigDbType(None, scope.env))]
       IN
       IF KeyWithoutCategory(c, key)
       THEN /\ loc' = [loc EXCEPT ![t] =
                         [call EXCEPT !.status = "ValueError",
                                      !.err = "ValueError"]]
            /\ pc' = [pc EXCEPT ![t] = "done"]
       ELSE /\ loc' = [loc EXCEPT ![t] = call]
            /\ pc' = [pc EXCEPT ![t] = "gsf_check"]
  /\ UNCHANGED <<scope, slots, nentries, engines, factories, pools, db, opened,
                 closed>>

\* ORDER BY category ASC, key ASC (rows of one pair in rowid order).
RowBefore(r1, r2) ==
  LET c1 == Index(CategoryOrder, TheVal(r1.category))
      c2 == Index(CategoryOrder, TheVal(r2.category))
      k1 == Index(CKeyOrder, TheVal(r1.key))
      k2 == Index(CKeyOrder, TheVal(r2.key))
  IN  \/ c1 < c2
      \/ c1 = c2 /\ k1 < k2
      \/ c1 = c2 /\ k1 = k2 /\ r1.id < r2.id
RECURSIVE SortRows(_)
SortRows(rows) ==
  IF rows = {} THEN <<>>
  ELSE LET first == CHOOSE r \in rows : \A q \in rows \ {r} : RowBefore(r, q)
       IN  <<first>> \o SortRows(rows \ {first})

\* get_custom_data: the filtered, ordered query and the conversion of each
\* row to a CustomData object (the value column decoded).
CustomDataRows(tab, category, key) ==
  LET hits == {tab[i] : i \in {j \in 1..Len(tab) :
                 /\ Truthy(category) => tab[j].category = category
                 /\ Truthy(key) => tab[j].key = key}}
      sorted == SortRows(hits)
  IN  [i \in 1..Len(sorted) |->
         [sorted[i] EXCEPT !.value = process_result_value(sorted[i].value)]]

\* get_custom_data: query.all() and the result list.
CustomDataList(t) ==
  /\ pc[t] = "cd_list"
  /\ \E ok \in DbOk :
       LET d == db[DbOf(KeyOf(t))] IN
       IF ~ok \/ ~HasTable(d, "custom_data")
       THEN Finish(t, "DatabaseError", "SQLAlchemyError", None)
       ELSE Finish(t, "ok", "none",
                   Some(CustomDataRows(d.custom, loc[t].category, loc[t].ckey)))
  /\ UNCHANGED <<scope, slots, nentries, engines, factories, pools, db, opened,
                 closed>>

CustomStep(t) ==
  \/ CallLogCustom(t)
  \/ CustomDataQuery(t)
  \/ CustomDataFlush(t)
  \/ CustomDataCommit(t)
  \/ CallGetCustom(t)
  \/ CustomDataList(t)
  \/ Return(t)

\* --------------------------------------------------------- orm_decisions
\* JSONEncodedDict on a list (the tags column): json.dumps gives the text of
\* the array, its members by position; None stays NULL.
process_bind_list(l) == [i \in 1..Len(l) |-> <<i, l[i]>>]
process_result_list(txt) == [i \in 1..Len(txt) |-> txt[i][2]]
BindTags(o) == IF o = None THEN None ELSE Some(process_bind_list(TheVal(o)))
LoadTags(o) == IF o = None THEN None ELSE Some(process_result_list(TheVal(o)))

Summaries == {"s1"}
\* The tags of a logged decision and the tag filters of a list call.
RowTags == {None, Some(<<>>), Some(<<"x">>), Some(<<"x", "y">>)}
FilterLists == {None, Some(<<>>), Some(<<"x", "y">>), Some(<<"x", "z">>)}
Limits == {None, Some(0), Some(1), Some(-1)}
SearchLimits == {None, Some(0), Some(1)}
DecisionIds == 1..MaxDecisions

DecisionLogsInFlight(k) == InFlight("log_decision", k)

\* log_decision is called.  The decision is first looked at when the row
\* object is built inside the session (line 22); it is drawn there.
CallLogDecision(t) ==
  /\ t \in scope.procs /\ pc[t] = "idle"
  /\ \E m \in StoreMods, ws \in scope.ws :
       LET k == RegistryKey(m, ws, ConfigDbType(None, scope.env)) IN
       /\ InsertRoom(k, db[DbOf(k)].decisions, db[DbOf(k)].dseq,
                     DecisionLogsInFlight(k), MaxDecisions)
       /\ loc' = [loc EXCEPT ![t] =
                    [Blank EXCEPT !.op = "log_decision", !.ws = ws, !.key = k]]
  /\ pc' = [pc EXCEPT ![t] = "gsf_check"]
  /\ UNCHANGED <<scope, slots, nentries, engines, factories, pools, db, opened,
                 closed>>

\* log_decision: session.add(orm_decision) and the flush of session.commit():
\* the INSERT, compiled with the insert trigger, takes the id.  rationale and
\* implementation_details are nullable text like summary and are left out
\* of the row.  Only the INSERT that gets past its preparation waits for
\* the lock of the database file.
LogDecisionInsert(t) ==
  /\ pc[t] = "dec_insert"
  /\ \E ok \in DbOk, ts \in Timestamps, sm \in Summaries, tg \in RowTags,
        used \in {0, 1} :
       LET k == KeyOf(t)
           d == db[DbOf(k)]
           id == NextId(k, d.decisions, d.dseq)
           args == [loc EXCEPT ![t].ts = ts, ![t].value = Some(sm),
                               ![t].tags = tg]
       IN
       IF ~ok \/ ~HasTable(d, "decisions")
       THEN \* the sequence value is lost when the failure came after the
            \* id was drawn
            /\ used = 1 => ok = FALSE /\ HasTable(d, "decisions")
                              /\ BackendOf(k) = "postgresql"
            /\ pc' = [pc EXCEPT ![t] = "done"]
            /\ loc' = [args EXCEPT ![t].status = "DatabaseError",
                                   ![t].err = "SQLAlchemyError"]
            /\ db' = [db EXCEPT ![DbOf(k)].dseq = @ + used]
       ELSE IF HasTrigger(d, k, "decisions_fts_insert")
                 /\ TriggerInsertRaises(DecisionFtsColumns,
                                        ShadowColumns(d, "decisions_fts"))
       THEN /\ used = 0
            /\ pc' = [pc EXCEPT ![t] = "done"]
            /\ loc' = [args EXCEPT ![t].status = "DatabaseError",
                                   ![t].err = "OperationalError"]
            /\ UNCHANGED db
       ELSE /\ used = 0
            /\ ~DbLocked(t)
            /\ db' = [db EXCEPT ![DbOf(k)].dseq =
                        IF BackendOf(k) = "postgresql" THEN @ + 1 ELSE @]
            /\ pc' = [pc EXCEPT ![t] = "dec_commit"]
            /\ loc' = [args EXCEPT ![t].id = id]
  /\ UNCHANGED <<scope, slots, nentries, engines, factories, pools, opened,
                 closed>>

\* The words FTS5 indexes for a decision (the insert trigger hands it the
\* summary and the JSON text of the tags) and the words to_tsvector finds:
\* the words of the summary and of the members of the tags (NULL has none).
TsVector(r) ==
  {r.summary} \cup (IF r.tags = None THEN {}
                   ELSE {TheVal(r.tags)[i][2] :
                           i \in 1..Len(TheVal(r.tags))})

\* log_decision: the COMMIT of session.commit() makes the row visible, with
\* what the insert trigger has added to the index under its rowid, and
\* expires the attributes of orm_decision.
LogDecisionCommit(t) ==
  /\ pc[t] = "dec_commit"
  /\ \E ok \in DbOk :
       LET k == KeyOf(t)
           row == [id |-> loc[t].id, timestamp |-> loc[t].ts,
                   summary |-> TheVal(loc[t].value),
                   tags |-> BindTags(loc[t].tags)]
       IN
       IF ok
       THEN /\ db' = [db EXCEPT
                        ![DbOf(k)].decisions = Append(@, row),
                        ![DbOf(k)].dfts =
                          IF HasTrigger(db[DbOf(k)], k, "decisions_fts_insert")
                          THEN @ \cup {<<row.id, w>> : w \in TsVector(row)}
                          ELSE @]
            /\ pc' = [pc EXCEPT ![t] = "dec_refresh"]
            /\ UNCHANGED loc
       ELSE /\ Finish(t, "DatabaseError", "SQLAlchemyError", None)
            /\ UNCHANGED db
  /\ UNCHANGED <<scope, slots, nentries, engines, factories, pools, opened,
                 closed>>

\* The read of an expired attribute after the commit: a SELECT of the row by
\* its primary key (ObjectDeletedError when the row is gone).  The row stays
\* committed when this round trip fails.
RefreshOutcome(ok, tab, id) ==
  IF ~ok THEN "SQLAlchemyError"
  ELSE IF \A i \in 1..Len(tab) : tab[i].id # id THEN "ObjectDeletedError"
  ELSE "none"

\* log_decision: "decision_data.id = orm_decision.id" (line 33).
LogDecisionRefresh(t) ==
  /\ pc[t] = "dec_refresh"
  /\ \E ok \in DbOk :
       LET err == RefreshOutcome(ok, db[DbOf(KeyOf(t))].decisions, loc[t].id)
       IN  IF err = "none" THEN Finish(t, "ok", "none", Some(loc[t].id))
           ELSE Finish(t, "DatabaseError", err, None)
  /\ UNCHANGED <<scope, slots, nentries, engines, factories, pools, db, opened,
                 closed>>

\* get_decisions is called.  limit and the tag filters are first looked at
\* inside the session (line 51); they are drawn there.
CallGetDecisions(t) ==
  /\ t \in scope.procs /\ pc[t] = "idle"
  /\ \E m \in StoreMods, ws \in scope.ws :
       loc' = [loc EXCEPT ![t] =
                 [Blank EXCEPT !.op = "get_decisions", !.ws = ws,
                    !.key = RegistryKey(m, ws, ConfigDbType(None, scope.env))]]
  /\ pc' = [pc EXCEPT ![t] = "gsf_check"]
  /\ UNCHANGED <<scope, slots, nentries, engines, factories, pools, db, opened,
                 closed>>

\* ORDER BY timestamp DESC: every arrangement of the rows with
\* non-increasing timestamps (the order of equal timestamps is the
\* backend's choice).
Arrangements(tab) ==
  LET n == Len(tab)
      perms == {p \in [1..n -> 1..n] : \A i, j \in 1..n : p[i] = p[j] => i = j}
  IN  {s \in {[i \in 1..n |-> tab[p[i]]] : p \in perms} :
         \A i, j \in 1..n : i < j => s[i].timestamp >= s[j].timestamp}

\* Mutation of ApplyLimit: the query is not limited.
ApplyLimit_Off(rows, limit) == rows
\* Mutation of ApplyLimit: a limit of zero returns no row.
ApplyLimit_Zero(rows, limit) ==
  IF limit # None /\ TheVal(limit) >= 0 /\ TheVal(limit) < Len(rows)
  THEN SubSeq(rows, 1, TheVal(limit)) ELSE rows
\* "if limit is not None and limit > 0: query = query.limit(limit)".
ApplyLimit(rows, limit) ==
  IF limit # None /\ TheVal(limit) > 0 /\ TheVal(limit) < Len(rows)
  THEN SubSeq(rows, 1, TheVal(limit)) ELSE rows

\* "d.tags and all(tag in d.tags for tag in tags_filter_include_all)"
TagsTruthy(tags) == tags # None /\ TheVal(tags) # <<>>
\* Mutation of KeepAll: one listed tag is enough.
KeepAll_One(tags, wanted) ==
  TagsTruthy(tags)
    /\ \E i \in 1..Len(wanted) : wanted[i] \in SeqRange(TheVal(tags))
KeepAll(tags, wanted) ==
  TagsTruthy(tags)
    /\ \A i \in 1..Len(wanted) : wanted[i] \in SeqRange(TheVal(tags))
\* "d.tags and any(tag in d.tags for tag in tags_filter_include_any)"
KeepAny(tags, wanted) ==
  TagsTruthy(tags)
    /\ \E i \in 1..Len(wanted) : wanted[i] \in SeqRange(TheVal(tags))

\* The two list comprehensions of lines 69-79; an empty or absent filter
\* list is skipped.
FilterByTags(decisions, tagsAll, tagsAny) ==
  LET afterAll == IF TagsTruthy(tagsAll)
                  THEN SelectSeq(decisions,
                                 LAMBDA r : KeepAll(r.tags, TheVal(tagsAll)))
                  ELSE decisions
  IN  IF TagsTruthy(tagsAny)
      THEN SelectSeq(afterAll, LAMBDA r : KeepAny(r.tags, TheVal(tagsAny)))
      ELSE afterAll

\* get_decisions: the ordered, limited query, the conversion of the rows
\* (tags decoded) and the tag filters.
GetDecisionsList(t) ==
  /\ pc[t] = "dec_list"
  /\ \E ok \in DbOk, lim \in Limits, fall \in FilterLists,
        fany \in FilterLists :
       LET d == db[DbOf(KeyOf(t))]
           args == [loc EXCEPT ![t].limit = lim, ![t].tagsAll = fall,
                               ![t].tagsAny = fany]
       IN
       IF ~ok \/ ~HasTable(d, "decisions")
       THEN /\ pc' = [pc EXCEPT ![t] = "done"]
            /\ loc' = [args EXCEPT ![t].status = "DatabaseError",
                                   ![t].err = "SQLAlchemyError"]
       ELSE \E ordered \in Arrangements(d.decisions) :
              LET rows == ApplyLimit(ordered, lim)
                  decisions == [i \in 1..Len(rows) |->
                                  [rows[i] EXCEPT !.tags = LoadTags(@)]]
              IN  /\ pc' = [pc EXCEPT ![t] = "done"]
                  /\ loc' = [args EXCEPT
                               ![t].status = "ok", ![t].fetched = decisions,
                               ![t].result =
                                 Some(FilterByTags(decisions, fall, fany))]
  /\ UNCHANGED <<scope, slots, nentries, engines, factories, pools, db, opened,
                 closed>>

\* delete_decision_by_id is called.
CallDeleteDecision(t) ==
  /\ t \in scope.procs /\ pc[t] = "idle"
  /\ \E m \in StoreMods, ws \in scope.ws, id \in DecisionIds :
       loc' = [loc EXCEPT ![t] =
                 [Blank EXCEPT !.op = "delete_decision", !.ws = ws, !.id = id,
                    !.key = RegistryKey(m, ws, ConfigDbType(None, scope.env))]]
  /\ pc' = [pc EXCEPT ![t] = "gsf_check"]
  /\ UNCHANGED <<scope, slots, nentries, engines, factories, pools, db, opened,
                 closed>>

\* delete_decision_by_id: query.filter_by(id=decision_id).delete(),
\* session.commit(), "return deleted_count > 0".  Each deleted row fires
\* the delete trigger.
DeleteDecisionCommit(t) ==
  /\ pc[t] = "dec_delete"
  /\ \E ok \in DbOk :
       LET k == KeyOf(t)
           d == db[DbOf(k)]
           deleted_count ==
             Cardinality({i \in 1..Len(d.decisions) :
                            d.decisions[i].id = loc[t].id})
       IN
       IF ~ok \/ ~HasTable(d, "decisions")
       THEN /\ Finish(t, "DatabaseError", "SQLAlchemyError", None)
            /\ UNCHANGED db
       ELSE /\ ~DbLocked(t)
            /\ db' = [db EXCEPT
                        ![DbOf(k)].decisions = DeleteById(@, loc[t].id),
                        ![DbOf(k)].dfts =
                          IF HasTrigger(d, k, "decisions_fts_delete")
                               /\ deleted_count > 0
                          THEN TriggerDelete(d, @, loc[t].id) ELSE @,
                        ![DbOf(k)].gone =
                          IF deleted_count > 0 THEN @ \cup {loc[t].id} ELSE @]
            /\ Finish(t, "ok", "none", Some(deleted_count > 0))
  /\ UNCHANGED <<scope, slots, nentries, engines, factories, pools, opened,
                 closed>>

\* ------------------------------------------ orm_decisions: full-text search
\* The query terms of a search, as the words of the text.
Terms == {<<"s1">>, <<"x", "y">>, <<"q">>}

\* search_decisions_fts is called; line 89 builds the configuration.
CallSearchDecisions(t) ==
  /\ t \in scope.procs /\ pc[t] = "idle"
  /\ \E m \in StoreMods, ws \in scope.ws :
       loc' = [loc EXCEPT ![t] =
                 [Blank EXCEPT !.op = "search_decisions", !.ws = ws,
                    !.key = RegistryKey(m, ws, ConfigDbType(None, scope.env))]]
  /\ pc' = [pc EXCEPT ![t] = "gsf_check"]
  /\ UNCHANGED <<scope, slots, nentries, engines, factories, pools, db, opened,
                 closed>>

\* "WHERE f.decisions_fts MATCH :query_term": the column named after the
\* table exists on an FTS5 virtual table only; on any other table the
\* statement raises OperationalError ("no such column").
MatchRaises(cols) == "decisions_fts" \notin cols

\* The rows a search selects from: "FROM decisions_fts f JOIN decisions d ON
\* f.rowid = d.id" on sqlite, session.query(orm_models.Decision) on
\* postgresql.
SearchedRows(d) == d.decisions

\* tsvector @@ plainto_tsquery('english', term) over to_tsvector('english',
\* summary || ' ' || ... || tags::text): every word of the term occurs.
TsMatch(r, term) == term # <<>> /\ SeqRange(term) \subseteq TsVector(r)

\* "f.decisions_fts MATCH :query_term" joined to decisions on f.rowid =
\* d.id: the rows under whose rowid the index holds every word of the term.
JoinedRows(d, term) ==
  SelectSeq(d.decisions,
            LAMBDA r : \A i \in 1..Len(term) : <<r.id, term[i]>> \in d.dfts)

\* "limit or 10".
LimitOr10(limit) ==
  IF limit = None \/ TheVal(limit) = 0 THEN 10 ELSE TheVal(limit)
FirstRows(rows, n) == IF n < Len(rows) THEN SubSeq(rows, 1, n) ELSE rows

\* Every order of the rows (ts_rank / rank order of the matches is the
\* backend's).
Orders(tab) ==
  LET n == Len(tab)
      perms == {p \in [1..n -> 1..n] : \A i, j \in 1..n : p[i] = p[j] => i = j}
  IN  {[i \in 1..n |-> tab[p[i]]] : p \in perms}

\* search_decisions_fts: the backend's statement, query.all() and the
\* conversion of the rows.
SearchDecisionsRun(t) ==
  /\ pc[t] = "dec_search"
  /\ \E ok \in DbOk, term \in Terms, lim \in SearchLimits :
       LET k == KeyOf(t)
           d == db[DbOf(k)]
           args == [loc EXCEPT ![t].term = term, ![t].limit = lim]
           matches == IF BackendOf(k) = "sqlite" THEN JoinedRows(d, term)
                      ELSE SelectSeq(SearchedRows(d),
                                     LAMBDA r : TsMatch(r, term))
       IN
       IF ~ok \/ ~HasTable(d, "decisions")
       THEN /\ pc' = [pc EXCEPT ![t] = "done"]
            /\ loc' = [args EXCEPT ![t].status = "DatabaseError",
                                   ![t].err = "SQLAlchemyError"]
       ELSE IF BackendOf(k) = "sqlite"
                 /\ MatchRaises(ShadowColumns(d, "decisions_fts"))
       THEN /\ pc' = [pc EXCEPT ![t] = "done"]
            /\ loc' = [args EXCEPT ![t].status = "DatabaseError",
                                   ![t].err = "OperationalError"]
       ELSE \E ranked \in Orders(matches) :
              LET rows == FirstRows(ranked, LimitOr10(lim)) IN
              /\ pc' = [pc EXCEPT ![t] = "done"]
              /\ loc' = [args EXCEPT
                           ![t].status = "ok",
                           ![t].result =
                             Some([i \in 1..Len(rows) |->
                                     [rows[i] EXCEPT !.tags = LoadTags(@)]])]
  /\ UNCHANGED <<scope, slots, nentries, engines, factories, pools, db, opened,
                 closed>>

SearchStep(t) ==
  \/ CallLogDecision(t)
  \/ LogDecisionInsert(t)
  \/ LogDecisionCommit(t)
  \/ LogDecisionRefresh(t)
  \/ CallDeleteDecision(t)
  \/ DeleteDecisionCommit(t)
  \/ CallSearchDecisions(t)
  \/ SearchDecisionsRun(t)
  \/ Return(t)

DecisionStep(t) ==
  \/ CallLogDecision(t)
  \/ LogDecisionInsert(t)
  \/ LogDecisionCommit(t)
  \/ LogDecisionRefresh(t)
  \/ CallGetDecisions(t)
  \/ GetDecisionsList(t)
  \/ CallDeleteDecision(t)
  \/ DeleteDecisionCommit(t)
  \/ Return(t)

\* ------------------------------------------------------------ orm_progress
ProgressStatuses == {"TODO", "DONE"}
StatusFilters == {None, Some(""), Some("DONE")}
ParentIds == {None, Some(1), Some(2)}

ProgressLogsInFlight(k) == InFlight("log_progress", k)

\* log_progress is called.  The entry is first looked at when the row object
\* is built inside the session (line 19); it is drawn there.
CallLogProgress(t) ==
  /\ t \in scope.procs /\ pc[t] = "idle"
  /\ \E m \in StoreMods, ws \in scope.ws :
       LET k == RegistryKey(m, ws, ConfigDbType(None, scope.env)) IN
       /\ InsertRoom(k, db[DbOf(k)].progress, db[DbOf(k)].pseq,
                     ProgressLogsInFlight(k), MaxProgress)
       /\ loc' = [loc EXCEPT ![t] =
                    [Blank EXCEPT !.op = "log_progress", !.ws = ws, !.key = k]]
  /\ pc' = [pc EXCEPT ![t] = "gsf_check"]
  /\ UNCHANGED <<scope, slots, nentries, engines, factories, pools, db, opened,
                 closed>>

\* The foreign key progress_entries.parent_id -> progress_entries.id is
\* enforced by postgresql at the end of the INSERT, the new row of that id
\* counting as a parent; sqlite does not enforce it (no PRAGMA foreign_keys
\* is issued).
ParentMissing(k, tab, parent, id) ==
  /\ BackendOf(k) = "postgresql" /\ parent # None
  /\ TheVal(parent) # id
  /\ \A i \in 1..Len(tab) : tab[i].id # TheVal(parent)

\* log_progress: session.add(orm_progress) and the flush of
\* session.commit(): the INSERT takes the id.  No trigger is defined on
\* progress_entries.
LogProgressInsert(t) ==
  /\ pc[t] = "prog_insert"
  /\ \E ok \in DbOk, ts \in Timestamps, st \in ProgressStatuses,
        par \in ParentIds :
       LET k == KeyOf(t)
           d == db[DbOf(k)]
           id == NextId(k, d.progress, d.pseq)
           args == [loc EXCEPT ![t].ts = ts, ![t].pstatus = Some(st),
                               ![t].parent = par]
           used == IF BackendOf(k) = "postgresql" THEN 1 ELSE 0
       IN
       IF ~ok \/ ~HasTable(d, "progress_entries")
       THEN /\ pc' = [pc EXCEPT ![t] = "done"]
            /\ loc' = [args EXCEPT ![t].status = "DatabaseError",
                                   ![t].err = "SQLAlchemyError"]
            /\ \E lost \in {0, IF HasTable(d, "progress_entries")
                                THEN used ELSE 0} :
                 db' = [db EXCEPT ![DbOf(k)].pseq = @ + lost]
       ELSE IF ParentMissing(k, d.progress, par, id)
       THEN /\ pc' = [pc EXCEPT ![t] = "done"]
            /\ loc' = [args EXCEPT ![t].status = "DatabaseError",
                                   ![t].err = "IntegrityError"]
            /\ db' = [db EXCEPT ![DbOf(k)].pseq = @ + used]
       ELSE /\ ~DbLocked(t)
            /\ db' = [db EXCEPT ![DbOf(k)].pseq = @ + used]
            /\ pc' = [pc EXCEPT ![t] = "prog_commit"]
            /\ loc' = [args EXCEPT ![t].id = id]
  /\ UNCHANGED <<scope, slots, nentries, engines, factories, pools, opened,
                 closed>>

\* log_progress: the COMMIT of session.commit() makes the row visible and
\* expires the attributes of orm_progress.
LogProgressCommit(t) ==
  /\ pc[t] = "prog_commit"
  /\ \E ok \in DbOk :
       IF ok
       THEN /\ db' = [db EXCEPT ![DbOf(KeyOf(t))].progress =
                        Append(@, [id |-> loc[t].id, timestamp |-> loc[t].ts,
                                   status |-> TheVal(loc[t].pstatus),
                                   parent_id |-> loc[t].parent])]
            /\ pc' = [pc EXCEPT ![t] = "prog_refresh"]
            /\ UNCHANGED loc
       ELSE /\ Finish(t, "DatabaseError", "SQLAlchemyError", None)
            /\ UNCHANGED db
  /\ UNCHANGED <<scope, slots, nentries, engines, factories, pools, opened,
                 closed>>

\* log_progress: "progress_data.id = orm_progress.id" (line 28).
LogProgressRefresh(t) ==
  /\ pc[t] = "prog_refresh"
  /\ \E ok \in DbOk :
       LET err == RefreshOutcome(ok, db[DbOf(KeyOf(t))].progress, loc[t].id)
       IN  IF err = "none" THEN Finish(t, "ok", "none", Some(loc[t].id))
           ELSE Finish(t, "DatabaseError", err, None)
  /\ UNCHANGED <<scope, slots, nentries, engines, factories, pools, db, opened,
                 closed>>

\* get_progress is called.  The filters and the limit are first looked at
\* inside the session (line 46); they are drawn there.
CallGetProgress(t) ==
  /\ t \in scope.procs /\ pc[t] = "idle"
  /\ \E m \in StoreMods, ws \in scope.ws :
       loc' = [loc EXCEPT ![t] =
                 [Blank EXCEPT !.op = "get_progress", !.ws = ws,
                    !.key = RegistryKey(m, ws, ConfigDbType(None, scope.env))]]
  /\ pc' = [pc EXCEPT ![t] = "gsf_check"]
  /\ UNCHANGED <<scope, slots, nentries, engines, factories, pools, db, opened,
                 closed>>

\* "if status_filter:" and "if parent_id_filter is not None:".
ProgressHits(tab, status_filter, parent_id_filter) ==
  SelectSeq(tab, LAMBDA r :
    /\ Truthy(status_filter) => r.status = TheVal(status_filter)
    /\ parent_id_filter # None => r.parent_id = parent_id_filter)

\* get_progress: the filtered query ordered by timestamp DESC, the limit,
\* query.all() and the result list.
GetProgressList(t) ==
  /\ pc[t] = "prog_list"
  /\ \E ok \in DbOk, sf \in StatusFilters, pf \in ParentIds, lim \in Limits :
       LET d == db[DbOf(KeyOf(t))]
           args == [loc EXCEPT ![t].pstatus = sf, ![t].parent = pf,
                               ![t].limit = lim]
       IN
       IF ~ok \/ ~HasTable(d, "progress_entries")
       THEN /\ pc' = [pc EXCEPT ![t] = "done"]
            /\ loc' = [args EXCEPT ![t].status = "DatabaseError",
                                   ![t].err = "SQLAlchemyError"]
       ELSE \E ordered \in Arrangements(ProgressHits(d.progress, sf, pf)) :
              /\ pc' = [pc EXCEPT ![t] = "done"]
              /\ loc' = [args EXCEPT
                           ![t].status = "ok",
                           ![t].result = Some(ApplyLimit(ordered, lim))]
  /\ UNCHANGED <<scope, slots, nentries, engines, factories, pools, db, opened,
                 closed>>

ProgressStep(t) ==
  \/ CallLogProgress(t)
  \/ LogProgressInsert(t)
  \/ LogProgressCommit(t)
  \/ LogProgressRefresh(t)
  \/ CallGetProgress(t)
  \/ GetProgressList(t)
  \/ Return(t)

\* -------------------------------------------- orm_session: close, closeAll
\* close_db_connection(workspace_id) is called.
CallClose(t) ==
  /\ t \in scope.procs /\ pc[t] = "idle"
  /\ \E m \in StoreMods, ws \in scope.ws :
       loc' = [loc EXCEPT ![t] =
                 [Blank EXCEPT !.op = "close", !.ws = ws,
                    !.key = RegistryKey(m, ws, ConfigDbType(None, scope.env))]]
  /\ pc' = [pc EXCEPT ![t] = "close_check"]
  /\ closed' = TRUE
  /\ UNCHANGED <<scope, slots, nentries, engines, factories, pools, db, opened>>

\* close_db_connection: "if key in _engines".
CloseCheckEngine(t) ==
  /\ pc[t] = "close_check"
  /\ pc' = [pc EXCEPT ![t] = IF engines[KeyOf(t)] # 0 THEN "close_dispose"
                             ELSE "close_fcheck"]
  /\ UNCHANGED <<scope, slots, nentries, engines, factories, pools, db, opened,
                 closed, loc>>

\* close_db_connection: _engines[key].dispose().
CloseDispose(t) ==
  /\ pc[t] = "close_dispose"
  /\ IF engines[KeyOf(t)] = 0
     THEN /\ Finish(t, "KeyError", "KeyError", None)
          /\ UNCHANGED pools
     ELSE /\ pools' = [pools EXCEPT ![engines[KeyOf(t)]].disposed = TRUE]
          /\ pc' = [pc EXCEPT ![t] = "close_del"]
          /\ UNCHANGED loc
  /\ UNCHANGED <<scope, slots, nentries, engines, factories, db, opened,
                 closed>>

\* Mutation of CloseDelEngine: the whole engine registry is emptied.
CloseDelEngine_All(t) ==
  /\ pc[t] = "close_del"
  /\ engines' = [k \in Keys |-> 0]
  /\ slots' = [k \in Keys |-> 0]
  /\ nentries' = [m \in Modules |-> 0]
  /\ pc' = [pc EXCEPT ![t] = "close_fcheck"]
  /\ UNCHANGED <<scope, factories, pools, db, opened, closed, loc>>

\* close_db_connection: del _engines[key].  The entry of the key becomes a
\* hole in the entry table, which is no shorter for it.
CloseDelEngine(t) ==
  /\ pc[t] = "close_del"
  /\ IF engines[KeyOf(t)] = 0
     THEN /\ Finish(t, "KeyError", "KeyError", None)
          /\ UNCHANGED <<engines, slots>>
     ELSE /\ engines' = [engines EXCEPT ![KeyOf(t)] = 0]
          /\ slots' = [slots EXCEPT ![KeyOf(t)] = 0]
          /\ pc' = [pc EXCEPT ![t] = "close_fcheck"]
          /\ UNCHANGED loc
  /\ UNCHANGED <<scope, nentries, factories, pools, db, opened, closed>>

\* close_db_connection: "if key in _session_factories".
CloseCheckFactory(t) ==
  /\ pc[t] = "close_fcheck"
  /\ IF factories[KeyOf(t)] # 0
     THEN /\ pc' = [pc EXCEPT ![t] = "close_fdel"]
          /\ UNCHANGED loc
     ELSE Finish(t, "ok", "none", None)
  /\ UNCHANGED <<scope, slots, nentries, engines, factories, pools, db, opened,
                 closed>>

\* close_db_connection: del _session_factories[key].
CloseDelFactory(t) ==
  /\ pc[t] = "close_fdel"
  /\ IF factories[KeyOf(t)] = 0
     THEN /\ Finish(t, "KeyError", "KeyError", None)
          /\ UNCHANGED factories
     ELSE /\ factories' = [factories EXCEPT ![KeyOf(t)] = 0]
          /\ Finish(t, "ok", "none", None)
  /\ UNCHANGED <<scope, slots, nentries, engines, pools, db, opened, closed>>

\* The keys in _engines of module m.
RegistryOf(m) == {k \in Keys : ModOf(k) = m /\ engines[k] # 0}

\* close_all_connections() is called: the for statement takes the iterator
\* of _engines.values(), which notes the size of the dict.
CallCloseAll(t) ==
  /\ t \in scope.procs /\ pc[t] = "idle"
  /\ \E m \in StoreMods :
       loc' = [loc EXCEPT ![t] =
                 [Blank EXCEPT !.op = "closeAll",
                    !.key = RegistryKey(m, "*", "*"),
                    !.size = Cardinality(RegistryOf(m)),
                    !.left = Cardinality(RegistryOf(m))]]
  /\ pc' = [pc EXCEPT ![t] = "ca_dispose"]
  /\ closed' = TRUE
  /\ UNCHANGED <<scope, slots, nentries, engines, factories, pools, db, opened>>

\* close_all_connections: one turn of "for engine in _engines.values():
\* engine.dispose()".  The iterator keeps the position in the entry table
\* it has come to.  It raises RuntimeError when the dict has not the size
\* it noted, walks on to the next entry that is not a hole, ends the loop
\* when the table has none, and raises RuntimeError when it finds an entry
\* after it has handed out as many as it noted.  The exception
\* leaves the function: lines 57-58 are not run.
CloseAllDispose(t) ==
  /\ pc[t] = "ca_dispose"
  /\ LET reg == RegistryOf(ModOf(KeyOf(t)))
         rest == {k \in reg : slots[k] > loc[t].pos}
     IN
     IF Cardinality(reg) # loc[t].size
     THEN /\ Finish(t, "RuntimeError", "changed size", None)
          /\ UNCHANGED pools
     ELSE IF rest = {}
     THEN /\ pc' = [pc EXCEPT ![t] = "ca_clear_eng"]
          /\ UNCHANGED <<pools, loc>>
     ELSE IF loc[t].left = 0
     THEN /\ Finish(t, "RuntimeError", "keys changed", None)
          /\ UNCHANGED pools
     ELSE \E k \in rest :
            /\ \A j \in rest : slots[k] <= slots[j]
            /\ pools' = [pools EXCEPT ![engines[k]].disposed = TRUE]
            /\ loc' = [loc EXCEPT ![t].pos = slots[k], ![t].left = @ - 1]
            /\ UNCHANGED pc
  /\ UNCHANGED <<scope, slots, nentries, engines, factories, db, opened,
                 closed>>

\* close_all_connections: _engines.clear().  The dict gets an empty entry
\* table: the next key entered is at its first position again.
CloseAllClearEngines(t) ==
  /\ pc[t] = "ca_clear_eng"
  /\ engines' = [k \in Keys |->
                   IF ModOf(k) = ModOf(KeyOf(t)) THEN 0 ELSE engines[k]]
  /\ slots' = [k \in Keys |->
                 IF ModOf(k) = ModOf(KeyOf(t)) THEN 0 ELSE slots[k]]
  /\ nentries' = [nentries EXCEPT ![ModOf(KeyOf(t))] = 0]
  /\ pc' = [pc EXCEPT ![t] = "ca_clear_fac"]
  /\ UNCHANGED <<scope, factories, pools, db, opened, closed, loc>>

\* close_all_connections: _session_factories.clear().
CloseAllClearFactories(t) ==
  /\ pc[t] = "ca_clear_fac"
  /\ factories' = [k \in Keys |->
                     IF ModOf(k) = ModOf(KeyOf(t)) THEN 0 ELSE factories[k]]
  /\ Finish(t, "ok", "none", None)
  /\ UNCHANGED <<scope, slots, nentries, engines, pools, db, opened, closed>>

\* ---------------------------------------------------------- specification
\* The steps of get_session, shared by every operation of the store.
OpenStep(t) ==
  \/ GetSessionFactoryCheck(t)
  \/ GetEngineCheck(t)
  \/ GetEngineCreate(t)
  \/ InitDatabaseCheck(t)
  \/ InitDatabaseCreateAll(t)
  \/ SetupFts(t)
  \/ InitDefaultContexts(t)
  \/ GetEngineReturn(t)
  \/ GetSessionFactoryStore(t)
  \/ GetSessionFactoryReturn(t)

ContextStep(t) ==
  \/ CallGet(t)
  \/ CallUpdate(t)
  \/ GetContextRead(t)
  \/ UpdateContextRead(t)
  \/ UpdateContextVersion(t)
  \/ UpdateContextCommit(t)
  \/ Return(t)

CloseStep(t) ==
  \/ CallClose(t)
  \/ CloseCheckEngine(t)
  \/ CloseDispose(t)
  \/ CloseDelEngine(t)
  \/ CloseCheckFactory(t)
  \/ CloseDelFactory(t)
  \/ CallCloseAll(t)
  \/ CloseAllDispose(t)
  \/ CloseAllClearEngines(t)
  \/ CloseAllClearFactories(t)

Next == \E t \in Threads : OpenStep(t) \/ ContextStep(t) \/ CloseStep(t)
RaceNext == \E t \in Threads : OpenStep(t) \/ ContextStep(t)

\* One caller at a time, every operation; create_all, init_default_contexts
\* and the round trips of the calls may fail (the sequential contracts).
Init ==
  InitWith({1}, ContextKinds, UpdateArgs, {"create_all", "defaults", "call"})
\* Two concurrent callers of get and update on one workspace, over a
\* database that never fails.
RaceInit == InitWith(Threads, {"product"}, RaceArgs, {})

Spec == Init /\ [][Next]_vars
RaceSpec == RaceInit /\ [][RaceNext]_vars

\* The registry alone: opens (through get_*_context), close and closeAll.
RegistryNext ==
  \E t \in Threads :
    \/ OpenStep(t) \/ CloseStep(t)
    \/ CallGet(t) \/ GetContextRead(t) \/ Return(t)
\* One caller at a time over two workspaces, through orm_session and through
\* orm_database; init_default_contexts and the round trips of the calls
\* may fail.
CloseInit ==
  InitModules({1}, {"orm_session", "orm_database"}, {"w1", "w2"},
              {Some("sqlite")}, {"product"}, {}, {"defaults", "call"})
\* Two concurrent callers on one workspace, a database that never fails.
CloseRaceInit == InitScoped(Threads, {"w1"}, {Some("sqlite")}, {"product"}, {}, {})
\* Backend resolution: one caller opens sessions with every explicit backend
\* argument under every setting of CONPORT_DB_TYPE.
ConfigNext ==
  \E t \in Threads : OpenStep(t) \/ CallOpen(t) \/ OpenReturn(t) \/ Return(t)
ConfigInit == InitScoped({1}, {"w1"}, EnvVals, {"product"}, {}, {})
ConfigSpec == ConfigInit /\ [][ConfigNext]_vars
\* CustomData, one caller at a time on either backend; every round trip,
\* those of the bootstrap included, may fail.
DataNext == \E t \in Threads : OpenStep(t) \/ CustomStep(t)
DataInit ==
  InitScoped({1}, {"w1"}, {Some("sqlite"), Some("postgresql")},
             {"product"}, CustomEntries, FaultSites)
DataSpec == DataInit /\ [][DataNext]_vars
\* Decisions, one caller at a time on either backend; the round trips of
\* the calls may fail, the bootstrap does not.
DecisionNext == \E t \in Threads : OpenStep(t) \/ DecisionStep(t)
DecisionInit ==
  InitScoped({1}, {"w1"}, {Some("sqlite"), Some("postgresql")},
             {"product"}, {}, {"call"})
DecisionSpec == DecisionInit /\ [][DecisionNext]_vars
\* Logs and deletes of decisions, one caller at a time on either backend;
\* trigger provisioning and the round trips of the calls may fail.
DeleteNext ==
  \E t \in Threads :
    \/ OpenStep(t)
    \/ CallLogDecision(t) \/ LogDecisionInsert(t) \/ LogDecisionCommit(t)
    \/ LogDecisionRefresh(t)
    \/ CallDeleteDecision(t) \/ DeleteDecisionCommit(t)
    \/ Return(t)
DeleteInit ==
  InitScoped({1}, {"w1"}, {Some("sqlite"), Some("postgresql")},
             {"product"}, {}, {"fts", "call"})
DeleteSpec == DeleteInit /\ [][DeleteNext]_vars
\* The lists of the three entity families, one caller at a time on either
\* backend over a database that never fails; a run fills the table of one
\* family only.
OnlyRowsOf(family) ==
  \A u \in Databases :
    /\ family # "decisions" => db[u].decisions = <<>>
    /\ family # "custom" => db[u].custom = <<>>
    /\ family # "progress" => db[u].progress = <<>>
ListNext ==
  \E t \in Threads :
    \/ OpenStep(t)
    \/ DecisionStep(t) /\ OnlyRowsOf("decisions")
    \/ CustomStep(t) /\ OnlyRowsOf("custom")
    \/ ProgressStep(t) /\ OnlyRowsOf("progress")
ListInit ==
  InitScoped({1}, {"w1"}, {Some("sqlite"), Some("postgresql")},
             {"product"}, CustomEntries, {})
ListSpec == ListInit /\ [][ListNext]_vars
\* Both context kinds next to progress entries: one caller at a time on
\* sqlite, over a database that never fails.
FrameArgs == {<<Some(DocA), None>>, <<None, Some(PatchB)>>}
FrameNext ==
  \E t \in Threads :
    \/ OpenStep(t)
    \/ CallUpdate(t) \/ UpdateContextRead(t) \/ UpdateContextVersion(t)
    \/ UpdateContextCommit(t)
    \/ CallLogProgress(t) \/ LogProgressInsert(t) \/ LogProgressCommit(t)
    \/ LogProgressRefresh(t)
    \/ Return(t)
FrameInit ==
  InitScoped({1}, {"w1"}, {Some("sqlite")}, ContextKinds, FrameArgs, {})
FrameSpec == FrameInit /\ [][FrameNext]_vars
\* Two workspaces whose ids differ in one character, on either backend: one
\* caller gets and updates the product context of either.
IsolationInit ==
  InitScoped({1}, {"w-1", "w_1"}, {Some("sqlite"), Some("postgresql")},
             {"product"}, RaceArgs, {})
IsolationSpec == IsolationInit /\ [][RaceNext]_vars
\* Search with logs and deletes, one caller at a time on either backend,
\* over a database that never fails.  The caller also takes engines with
\* get_engine of orm_session and of orm_models (which bootstraps nothing)
\* and calls setup_sqlite_fts / setup_postgresql_fts on them, before or
\* after the tables exist.
SearchNext ==
  \E t \in Threads :
    \/ OpenStep(t)
    \/ CallGetEngine(t) \/ CallSetupFts(t)
    \/ CallLogDecision(t)
    \/ LogDecisionInsert(t)
    \/ LogDecisionCommit(t) \/ LogDecisionRefresh(t)
    \/ CallDeleteDecision(t) \/ DeleteDecisionCommit(t)
    \/ CallSearchDecisions(t) \/ SearchDecisionsRun(t)
    \/ Return(t)
SearchInit ==
  InitModules({1}, {"orm_session", "orm_models"}, {"w1"},
              {Some("sqlite"), Some("postgresql")}, {"product"}, {}, {})
SearchSpec == SearchInit /\ [][SearchNext]_vars
\* Search with logs and deletes through orm_session alone, where round
\* trips, index provisioning among them, may fail.
SearchFaultNext == \E t \in Threads : OpenStep(t) \/ SearchStep(t)
SearchFaultInit ==
  InitScoped({1}, {"w1"}, {Some("sqlite"), Some("postgresql")},
             {"product"}, {}, FaultSites)
SearchFaultSpec == SearchFaultInit /\ [][SearchFaultNext]_vars
\* Two concurrent callers of log_custom_data on either backend, through
\* orm_session and through orm_database (one database); trigger and index
\* provisioning may fail, no other round trip does.
DataRaceNext ==
  \E t \in Threads :
    \/ OpenStep(t)
    \/ CallLogCustom(t) \/ CustomDataQuery(t) \/ CustomDataFlush(t)
    \/ CustomDataCommit(t) \/ Return(t)
DataRaceInit ==
  InitModules(Threads, {"orm_session", "orm_database"}, {"w1"},
              {Some("sqlite"), Some("postgresql")}, {"product"}, RaceEntries,
              {"fts"})
DataRaceSpec == DataRaceInit /\ [][DataRaceNext]_vars
\* Two concurrent callers of log_decision and log_custom_data of
\* orm_session on sqlite, over a database that never fails: the logs of one
\* caller run between the statements of the other caller's bootstrap.
BootRaceNext ==
  \E t \in Threads :
    \/ OpenStep(t)
    \/ CallLogDecision(t) \/ LogDecisionInsert(t) \/ LogDecisionCommit(t)
    \/ LogDecisionRefresh(t)
    \/ CallLogCustom(t) \/ CustomDataQuery(t) \/ CustomDataFlush(t)
    \/ CustomDataCommit(t) \/ Return(t)
BootRaceInit ==
  InitModules(Threads, {"orm_session"}, {"w1"},
              {Some("sqlite")}, {"product"}, RaceEntries, {})
BootRaceSpec == BootRaceInit /\ [][BootRaceNext]_vars
\* Two concurrent callers of get_engine and create_tables of orm_models and
\* of get_*_context of orm_session on sqlite, over a database that never
\* fails.
CreateRaceNext ==
  \E t \in Threads :
    \/ OpenStep(t)
    \/ CallGetEngine(t)
    \/ CallCreateTables(t) \/ CreateTablesCheck(t)
    \/ CreateTablesCreateAll(t) \/ CreateFtsTables(t)
    \/ CallGet(t) \/ GetContextRead(t) \/ Return(t)
CreateRaceInit ==
  InitModules(Threads, {"orm_session", "orm_models"}, {"w1"},
              {Some("sqlite")}, {"product"}, {}, {})
CreateRaceSpec == CreateRaceInit /\ [][CreateRaceNext]_vars
\* Replaces and patches in a row: one caller at a time replaces and patches
\* the documents of both kinds with every document and every patch; the
\* round trips of the calls may fail, the bootstrap does not.  A history
\* takes one entry more than in the other runs (a replace and two patches).
PatchArgs ==
  {<<Some(d), None>> : d \in Docs} \cup {<<None, Some(p)>> : p \in Patches}
PatchNext ==
  \E t \in Threads :
    \/ OpenStep(t)
    \/ CallUpdate(t) \/ UpdateContextRead(t) \/ UpdateContextVersion(t)
    \/ UpdateContextCommit(t) \/ Return(t)
PatchInit ==
  InitHist({1}, {"orm_session"}, {"w1"}, {Some("sqlite")}, ContextKinds,
           PatchArgs, {"call"}, MaxHist + 1)
PatchSpec == PatchInit /\ [][PatchNext]_vars
\* The operations of the store in any order, one caller at a time on
\* either backend over a database that never fails: get and update of both
\* kinds, log, list, delete and search of the entities, open (within each
\* of them) and close.
StoreArgs == {<<None, Some(PatchB)>>} \cup {<<"c1", "k1", DocA, 1>>}
\* The entity arguments of these runs: no tags, no filter, no limit, no
\* parent, one timestamp.
PlainInputs(t) ==
  /\ loc[t].tags = None /\ loc[t].tagsAll = None /\ loc[t].tagsAny = None
  /\ loc[t].limit = None /\ loc[t].parent = None
  /\ loc[t].ts \in {0, 1}
  /\ loc[t].pstatus \in {None, Some("TODO")}
  /\ loc[t].term \in {<<>>, <<"s1">>}
  /\ loc[t].category \in {None, Some("c1")}
  /\ loc[t].ckey \in {None, Some("k1")}
StoreNext ==
  \E t \in Threads :
    \/ OpenStep(t) \/ ContextStep(t)
    \/ CallClose(t) \/ CloseCheckEngine(t) \/ CloseDispose(t)
    \/ CloseDelEngine(t) \/ CloseCheckFactory(t) \/ CloseDelFactory(t)
    \/ CallLogCustom(t) \/ CustomDataQuery(t) \/ CustomDataFlush(t)
    \/ CustomDataCommit(t)
    \/ CallGetCustom(t) /\ PlainInputs(t)'
    \/ CustomDataList(t)
    \/ CallLogDecision(t)
    \/ LogDecisionInsert(t) /\ PlainInputs(t)'
    \/ LogDecisionCommit(t) \/ LogDecisionRefresh(t)
    \/ CallGetDecisions(t)
    \/ GetDecisionsList(t) /\ PlainInputs(t)'
    \/ CallDeleteDecision(t) \/ DeleteDecisionCommit(t)
    \/ CallSearchDecisions(t)
    \/ SearchDecisionsRun(t) /\ PlainInputs(t)'
    \/ CallLogProgress(t)
    \/ LogProgressInsert(t) /\ PlainInputs(t)'
    \/ LogProgressCommit(t) \/ LogProgressRefresh(t)
    \/ CallGetProgress(t)
    \/ GetProgressList(t) /\ PlainInputs(t)'
StoreInit ==
  InitModules({1}, {"orm_session"}, {"w1"},
              {Some("sqlite"), Some("postgresql")}, ContextKinds, StoreArgs,
              {})
StoreSpec == StoreInit /\ [][StoreNext]_vars
CloseSpec == CloseInit /\ [][RegistryNext]_vars
CloseRaceSpec == CloseRaceInit /\ [][RegistryNext]_vars
\* The three modules that keep registries, side by side: one caller at a
\* time on either backend uses get_*_context of orm_session and of
\* orm_database, get_engine, get_session_factory and create_tables of every
\* module, and calls init_database and init_default_contexts on the
\* engines of the registries; create_all may fail.
ModulesNext ==
  \E t \in Threads :
    \/ OpenStep(t)
    \/ CallGetEngine(t) \/ CallGetSessionFactory(t)
    \/ CallCreateTables(t) \/ CreateTablesCheck(t)
    \/ CreateTablesCreateAll(t) \/ CreateFtsTables(t)
    \/ CallInitDatabase(t) \/ CallInitDefaultContexts(t)
    \/ CallGet(t) \/ GetContextRead(t) \/ Return(t)
ModulesInit ==
  InitModules({1}, Modules, {"w1"}, {Some("sqlite"), Some("postgresql")},
              {"product"}, {}, {"create_all"})
ModulesSpec == ModulesInit /\ [][ModulesNext]_vars

\* ------------------------------------------------------------- properties
\* What a get of the given kind returns from database k (row present).
StoredDoc(k, kind) == process_result_value(TheVal(db[DbOf(k)].row[kind]))
HistOf(k, kind) == db[DbOf(k)].hist[kind]

\* Thread t has just returned from an update that committed.
UpdateDone(t) ==
  pc[t] = "done" /\ loc[t].op = "update" /\ loc[t].status = "ok"

\* Thread t takes the step that ends its update call.
UpdateEnds(t) ==
  loc[t].op = "update" /\ pc[t] # "done" /\ pc'[t] = "done"

\* The patch semantics stated key by key.
RefPatch(d, p) ==
  LET del == {k \in DOMAIN p : p[k] = DeleteSentinel}
      set == (DOMAIN p) \ del
  IN  [k \in ((DOMAIN d) \ del) \cup set |-> IF k \in set THEN p[k] ELSE d[k]]

\* C1: with one caller at a time, the history of a kind has versions 1..N in
\* insertion order, its first entry is the bootstrap default {}, and the entry
\* written by the N-th successful update is entry N and holds the document
\* that update replaced.
C1_HistoryVersions ==
  /\ \A k \in Keys, kind \in ContextKinds :
       /\ \A i \in 1..Len(HistOf(k, kind)) : HistOf(k, kind)[i].version = i
       /\ HistOf(k, kind) # <<>> =>
            HistOf(k, kind)[1].content = process_bind_param(EmptyDoc)
  /\ \A t \in Threads :
       UpdateDone(t) =>
         LET h == HistOf(KeyOf(t), loc[t].kind) IN
         /\ loc[t].ver = Len(h)
         /\ h[Len(h)].content = process_bind_param(TheVal(loc[t].cur))

\* C2: after a successful update that passed content=C, a get of that kind
\* returns exactly C (any C, the empty document included, either kind).
C2_ReplaceThenGet ==
  \A t \in Threads :
    UpdateDone(t) /\ loc[t].content # None =>
      /\ db[DbOf(KeyOf(t))].row[loc[t].kind] # None
      /\ StoredDoc(KeyOf(t), loc[t].kind) = TheVal(loc[t].content)

\* C2 witness: a non-empty document was replaced by the empty document.
C2_Witness ==
  \E t \in Threads :
    /\ UpdateDone(t) /\ loc[t].content = Some(EmptyDoc)
    /\ loc[t].cur # Some(EmptyDoc)
    /\ StoredDoc(KeyOf(t), loc[t].kind) = EmptyDoc

\* C3: after a successful patch update the document is the key-by-key
\* reference result: sentinel keys absent, other patch keys set to the patch
\* value, all remaining keys as before.
C3_PatchReference ==
  \A t \in Threads :
    UpdateDone(t) /\ loc[t].content = None /\ loc[t].patch # None =>
      StoredDoc(KeyOf(t), loc[t].kind)
        = RefPatch(TheVal(loc[t].cur), TheVal(loc[t].patch))

\* C3 witness: one patch removed a present key and overwrote the value of a
\* second key.
C3_Witness ==
  \E t \in Threads :
    /\ UpdateDone(t) /\ loc[t].content = None
    /\ loc[t].patch = Some([k \in {"a", "b"} |->
                              IF k = "b" THEN DeleteSentinel ELSE "y"])
    /\ loc[t].cur = Some([k \in {"a", "b"} |-> "x"])
    /\ StoredDoc(KeyOf(t), loc[t].kind) = [k \in {"a"} |-> "y"]

\* C4: the step that ends an update call either commits both the history
\* entry (the pre-update document, under the computed version) and the new
\* document, or, when the call failed, leaves the history and the rows of
\* both kinds as they were.
C4_AtomicUpdate ==
  [][\A t \in Threads :
       UpdateEnds(t) =>
         LET k == KeyOf(t)
             kind == loc[t].kind
         IN  IF loc'[t].status = "ok"
             THEN /\ db'[DbOf(k)].hist[kind]
                       = Append(db[DbOf(k)].hist[kind],
                                [version |-> loc[t].ver,
                                 content |-> process_bind_param(TheVal(loc[t].cur)),
                                 change_source |-> ChangeSource(kind)])
                  /\ db'[DbOf(k)].row[kind]
                       = Some(process_bind_param(TheVal(loc[t].newc)))
             ELSE /\ db'[DbOf(k)].hist = db[DbOf(k)].hist
                  /\ db'[DbOf(k)].row = db[DbOf(k)].row]_vars

\* C4 witness: an update failed at its commit and nothing of it is stored.
C4_Witness ==
  \E t \in Threads :
    /\ pc[t] = "done" /\ loc[t].op = "update"
    /\ loc[t].status = "DatabaseError" /\ loc[t].ver = 1
    /\ loc[t].newc # loc[t].cur
    /\ HistOf(KeyOf(t), loc[t].kind) = <<>>
    /\ db[DbOf(KeyOf(t))].row[loc[t].kind] = Some(process_bind_param(EmptyDoc))

\* C5: an update call with both content and patch set, or with neither set,
\* fails with the invalid-argument error (ValueError in the source).
C5_ExactlyOneMode ==
  \A t \in Threads :
    /\ pc[t] = "done" /\ loc[t].op = "update"
    /\ (loc[t].content = None) = (loc[t].patch = None)
    /\ loc[t].err \notin {"SQLAlchemyError", "row not found", "KeyError"}
    => loc[t].status = "DatabaseError" /\ loc[t].err = "ValueError"

\* C6: every committed update is serial with respect to the row: the
\* document it read (and recorded as history) is the document that is
\* current when it commits, and its new document is the current one
\* afterwards.
C6_SerialPerRow ==
  [][\A t \in Threads :
       UpdateEnds(t) /\ loc'[t].status = "ok" =>
         /\ StoredDoc(KeyOf(t), loc[t].kind) = TheVal(loc[t].cur)
         /\ db'[DbOf(KeyOf(t))].row[loc[t].kind]
              = Some(process_bind_param(TheVal(loc[t].newc)))]_vars

\* C7: the versions of one kind's history are pairwise distinct and are the
\* contiguous range 1..n in insertion order.
C7_VersionsContiguous ==
  \A k \in Keys, kind \in ContextKinds :
    \A i \in 1..Len(HistOf(k, kind)) : HistOf(k, kind)[i].version = i

\* C8: the history log is append-only: every step of every store operation
\* (get, update, log, list, delete, search, open, close) leaves each history
\* log an extension of what it was.
C8_AppendOnly ==
  [][\A u \in Databases, kind \in ContextKinds :
       /\ Len(db'[u].hist[kind]) >= Len(db[u].hist[kind])
       /\ SubSeq(db'[u].hist[kind], 1, Len(db[u].hist[kind]))
            = db[u].hist[kind]]_vars

\* C8 witness: both histories hold an entry, a decision, a custom-data
\* entry and a progress entry were logged and a decision deleted after
\* them, the engine was closed and opened again, and a search has just
\* returned the decision that is left.
C8_Witness ==
  \E t \in Threads :
    LET k == KeyOf(t)
        d == db[DbOf(k)]
    IN  /\ pc[t] = "done" /\ loc[t].op = "search_decisions"
        /\ loc[t].status = "ok" /\ loc[t].result # None
        /\ TheVal(loc[t].result) # <<>>
        /\ \A kind \in ContextKinds : Len(d.hist[kind]) >= 1
        /\ Len(d.decisions) = 1 /\ d.decisions[1].id = 2
        /\ d.custom # <<>> /\ d.progress # <<>>
        /\ closed /\ Len(pools) >= 2

\* C9: once a first open of a workspace has completed, both singleton rows
\* exist.
C9_SingletonRows ==
  \A k \in opened : \A kind \in ContextKinds : db[DbOf(k)].row[kind] # None

\* C10: as long as nothing was closed, at most one pool was ever created for
\* a key and every caller holds that pool.
C10_OnePool ==
  ~closed =>
    /\ \A k \in Keys :
         Cardinality({i \in 1..Len(pools) : pools[i].key = k}) <= 1
    /\ \A t \in Threads, u \in Threads :
         loc[t].engine # 0 /\ loc[u].engine # 0 /\ KeyOf(t) = KeyOf(u)
           => loc[t].engine = loc[u].engine

\* C11: whenever an entry leaves the engine registry (a step of close or
\* closeAll, under any interleaving with opens), the pool it held has been
\* disposed; in particular a pool that a concurrent open inserted is never
\* dropped undisposed.
C11_RemovedPoolsDisposed ==
  [][\A k \in Keys :
       engines[k] # 0 /\ engines'[k] = 0 => pools'[engines[k]].disposed]_vars

\* The pools of key k are all disposed.
PoolsDisposed(ps, k) ==
  \A i \in 1..Len(ps) : ps[i].key = k => ps[i].disposed

\* C12: with one caller at a time, every step of a close(workspace) call
\* leaves the registry entries and pools of every other key as they were
\* (so a close of a key that is not cached changes nothing), and the call
\* ends normally with its own key in neither registry and its pool
\* disposed; every step of a closeAll call leaves the registries and pools
\* of the other modules as they were, and the call ends normally with both
\* registries of its module empty and every pool of that module disposed.
C12_CloseFrame ==
  [][\A t \in Threads :
       /\ loc[t].op = "close" /\ pc[t] # "done" =>
            /\ \A k \in Keys \ {KeyOf(t)} :
                 engines'[k] = engines[k] /\ factories'[k] = factories[k]
            /\ Len(pools') = Len(pools)
            /\ \A i \in 1..Len(pools) :
                 pools[i].key # KeyOf(t) => pools'[i] = pools[i]
            /\ pc'[t] = "done" =>
                 /\ loc'[t].status = "ok"
                 /\ engines'[KeyOf(t)] = 0 /\ factories'[KeyOf(t)] = 0
                 /\ PoolsDisposed(pools', KeyOf(t))
       /\ loc[t].op = "closeAll" /\ pc[t] # "done" =>
            /\ \A k \in Keys :
                 ModOf(k) # ModOf(KeyOf(t)) =>
                   /\ engines'[k] = engines[k] /\ factories'[k] = factories[k]
                   /\ PoolsDisposed(pools', k) = PoolsDisposed(pools, k)
            /\ pc'[t] = "done" =>
                 /\ loc'[t].status = "ok"
                 /\ \A k \in Keys :
                      ModOf(k) = ModOf(KeyOf(t)) =>
                        /\ engines'[k] = 0 /\ factories'[k] = 0
                        /\ PoolsDisposed(pools', k)]_vars

\* C12 witness: a close of one workspace has ended, its pool is disposed and
\* its entries are gone, while the other workspace is still cached with a
\* live pool.
C12_Witness ==
  \E t \in Threads, k \in Keys :
    /\ pc[t] = "done" /\ loc[t].op = "close" /\ loc[t].status = "ok"
    /\ k # KeyOf(t)
    /\ engines[KeyOf(t)] = 0 /\ factories[KeyOf(t)] = 0
    /\ \E i \in 1..Len(pools) : pools[i].key = KeyOf(t) /\ pools[i].disposed
    /\ engines[k] # 0 /\ factories[k] # 0 /\ ~pools[engines[k]].disposed

\* The backend the resolution rule of the specification names: the explicit
\* argument when given, else the environment setting, else sqlite;
\* 'postgres' reads as postgresql and anything unrecognized as sqlite.
RefNormalize(str) ==
  IF Lower(str) \in {"postgres", "postgresql"} THEN "postgresql" ELSE "sqlite"
RefBackend(dbarg, envval) ==
  IF dbarg # None /\ TheVal(dbarg) # "" THEN RefNormalize(TheVal(dbarg))
  ELSE IF envval # None THEN RefNormalize(TheVal(envval))
  ELSE "sqlite"

\* C13: an open with any explicit backend argument under any environment
\* setting does not fail, and the backend it resolved is sqlite or
\* postgresql, namely the one the resolution rule names.
C13_BackendResolution ==
  \A t \in Threads :
    pc[t] = "done" /\ loc[t].op = "open" =>
      /\ loc[t].status = "ok"
      /\ KeyOf(t)[2] \in DbTypes
      /\ KeyOf(t)[2] = RefBackend(loc[t].dbarg, scope.env)

\* Thread t takes the step that ends its log_custom_data call.
LogEnds(t) ==
  loc[t].op = "log_custom" /\ pc[t] # "done" /\ pc'[t] = "done"

\* C14: with one caller at a time, a log_custom_data call that meets no
\* failing round trip succeeds; when a row of its (category, key) exists
\* that row gets the call's timestamp and value, its id is returned and no
\* row is added, otherwise one row with a fresh id is appended; every other
\* row is unchanged, and list(category) then shows exactly one row of the
\* pair, holding the logged value.
C14_Upsert ==
  [][\A t \in Threads :
       LogEnds(t) /\ loc'[t].category # None
         /\ loc'[t].err # "SQLAlchemyError" =>
         LET tab == db[DbOf(KeyOf(t))].custom
             new == db'[DbOf(KeyOf(t))].custom
             at == PairRows(tab, loc'[t].category, loc'[t].ckey)
             vt == process_bind_param(TheVal(loc'[t].value))
             listed == CustomDataRows(new, loc'[t].category, None)
             mine == {i \in 1..Len(listed) : listed[i].key = loc'[t].ckey}
         IN  /\ loc'[t].status = "ok"
             /\ IF at # {}
                THEN \E i \in at :
                       /\ new = [tab EXCEPT ![i].timestamp = loc'[t].ts,
                                            ![i].value = vt]
                       /\ loc'[t].result = Some(tab[i].id)
                ELSE /\ Len(new) = Len(tab) + 1
                     /\ SubSeq(new, 1, Len(tab)) = tab
                     /\ new[Len(new)].category = loc'[t].category
                     /\ new[Len(new)].key = loc'[t].ckey
                     /\ new[Len(new)].value = vt
                     /\ new[Len(new)].timestamp = loc'[t].ts
                     /\ \A i \in 1..Len(tab) : tab[i].id # new[Len(new)].id
                     /\ loc'[t].result = Some(new[Len(new)].id)
             /\ Cardinality(mine) = 1
             /\ \A i \in mine : listed[i].value = TheVal(loc'[t].value)]_vars

\* No two rows of custom_data share a (category, key) pair.
UniquePairs ==
  \A k \in Keys : \A i, j \in 1..Len(db[DbOf(k)].custom) :
    db[DbOf(k)].custom[i].category = db[DbOf(k)].custom[j].category
      /\ db[DbOf(k)].custom[i].key = db[DbOf(k)].custom[j].key => i = j

\* C15: under concurrent log_custom_data calls no step leads to two rows
\* sharing a (category, key) pair, and a call that ends while a row of its
\* pair exists ends successfully and adds no row (it has updated in place).
C15_UniquePairs ==
  [][/\ UniquePairs'
     /\ \A t \in Threads :
          LogEnds(t) /\ loc'[t].category # None
            /\ PairRows(db[DbOf(KeyOf(t))].custom, loc'[t].category,
                        loc'[t].ckey) # {} =>
            /\ loc'[t].status = "ok"
            /\ Len(db'[DbOf(KeyOf(t))].custom) = Len(db[DbOf(KeyOf(t))].custom)]_vars

\* C16: a context update or CustomData list that ends with the
\* invalid-argument error (ValueError in the source) has not obtained a
\* session before: no engine was looked up, created or bootstrapped and no
\* query was run.
C16_InvalidBeforeDb ==
  \A t \in Threads :
    pc[t] = "done" /\ loc[t].op \in {"update", "get_custom"}
      /\ loc[t].err = "ValueError" =>
      loc[t].engine = 0 /\ ~loc[t].creator

\* C17: a CustomData list with a (non-empty) key and no category ends with
\* ValueError and returns nothing, whatever the table holds.
C17_KeyNeedsCategory ==
  \A t \in Threads :
    pc[t] = "done" /\ loc[t].op = "get_custom"
      /\ Truthy(loc[t].ckey) /\ ~Truthy(loc[t].category) =>
      loc[t].status = "ValueError" /\ loc[t].result = None

\* C17 witness: the guard fired on a store whose table has a row of that
\* key.
C17_Witness ==
  \E t \in Threads :
    /\ pc[t] = "done" /\ loc[t].op = "get_custom"
    /\ loc[t].ckey = Some("k1") /\ loc[t].category = None
    /\ loc[t].status = "ValueError" /\ loc[t].result = None
    /\ \E i \in 1..Len(db[DbOf(KeyOf(t))].custom) :
         db[DbOf(KeyOf(t))].custom[i].key = Some("k1")

\* The tag set of a decision (empty when tags is absent).
TagSet(tags) == IF tags = None THEN {} ELSE SeqRange(TheVal(tags))

\* The reference filter: with a non-empty includeAll list the tag set holds
\* every listed tag, with a non-empty includeAny list it holds at least one;
\* a decision without tags passes neither.
RefKeep(tags, tagsAll, tagsAny) ==
  /\ TagSet(tagsAll) # {} =>
       TagSet(tags) # {} /\ TagSet(tagsAll) \subseteq TagSet(tags)
  /\ TagSet(tagsAny) # {} => TagSet(tagsAny) \cap TagSet(tags) # {}

\* C18: get_decisions returns, in the order fetched, exactly the fetched
\* decisions that pass the reference filter.
C18_TagFilter ==
  \A t \in Threads :
    pc[t] = "done" /\ loc[t].op = "get_decisions" /\ loc[t].status = "ok" =>
      TheVal(loc[t].result)
        = SelectSeq(loc[t].fetched,
                    LAMBDA r : RefKeep(r.tags, loc[t].tagsAll, loc[t].tagsAny))

\* C18 witness: includeAll(["x","y"]) dropped a decision tagged ["x"] and
\* kept one tagged ["x","y"].
C18_Witness ==
  \E t \in Threads :
    /\ pc[t] = "done" /\ loc[t].op = "get_decisions" /\ loc[t].status = "ok"
    /\ loc[t].tagsAll = Some(<<"x", "y">>) /\ loc[t].tagsAny = None
    /\ \E i \in 1..Len(loc[t].fetched) : loc[t].fetched[i].tags = Some(<<"x">>)
    /\ Len(TheVal(loc[t].result)) = 1
    /\ TheVal(loc[t].result)[1].tags = Some(<<"x", "y">>)

\* Thread t takes the step that ends its delete_decision_by_id call.
DeleteEnds(t) ==
  loc[t].op = "delete_decision" /\ pc[t] # "done" /\ pc'[t] = "done"

\* C19: a delete_decision_by_id call that meets no failing round trip
\* returns TRUE exactly when a decision of that id existed just before;
\* afterwards no decision has that id, and the other decisions are the same
\* rows in the same order (so deleting an id that does not exist returns
\* FALSE and changes nothing).
C19_DeleteById ==
  [][\A t \in Threads :
       DeleteEnds(t) /\ loc'[t].err # "SQLAlchemyError" =>
         LET tab == db[DbOf(KeyOf(t))].decisions
             new == db'[DbOf(KeyOf(t))].decisions
             existed == \E i \in 1..Len(tab) : tab[i].id = loc[t].id
         IN  /\ loc'[t].status = "ok"
             /\ loc'[t].result = Some(existed)
             /\ \A i \in 1..Len(new) : new[i].id # loc[t].id
             /\ new = SelectSeq(tab, LAMBDA r : r.id # loc[t].id)
             /\ ~existed => new = tab]_vars

\* C19 witness: a delete returned TRUE and another decision is still there.
C19_Witness ==
  \E t \in Threads :
    /\ pc[t] = "done" /\ loc[t].op = "delete_decision"
    /\ loc[t].result = Some(TRUE)
    /\ Len(db[DbOf(KeyOf(t))].decisions) >= 1

\* The ids of the rows of a table.
IdsOf(tab) == {tab[i].id : i \in 1..Len(tab)}

\* C20: on the trigger-synchronized backend (sqlite) the shadow tables hold
\* exactly the ids of their source rows, and carry the searchable columns
\* whenever there is a row to describe.
C20_ShadowInSync ==
  \A k \in Keys :
    BackendOf(k) = "sqlite" =>
      LET d == db[DbOf(k)] IN
      /\ d.dfts = UNION {{<<d.decisions[i].id, w>> :
                             w \in TsVector(d.decisions[i])} :
                          i \in 1..Len(d.decisions)}
      /\ d.cfts = IdsOf(d.custom)
      /\ d.decisions # <<>> =>
           DecisionFtsColumns \subseteq ShadowColumns(d, "decisions_fts")
      /\ d.custom # <<>> =>
           CustomFtsColumns \subseteq ShadowColumns(d, "custom_data_fts")

\* Thread t takes the step that ends its search_decisions_fts call.
SearchEnds(t) ==
  loc[t].op = "search_decisions" /\ pc[t] # "done" /\ pc'[t] = "done"

C22_SearchDegrades ==
  \A t \in Threads :
    /\ pc[t] = "done" /\ loc[t].op = "search_decisions"
    /\ db[DbOf(KeyOf(t))].tables = NumTables
    /\ db[DbOf(KeyOf(t))].fts < SetupFtsDone(KeyOf(t))
    /\ loc[t].err # "SQLAlchemyError"
    => loc[t].status = "ok" /\ loc[t].result = Some(<<>>)

\* C23: workspaces are isolated: a step of a call on one workspace leaves
\* the physical database of every other workspace, on each backend, as it
\* was (which needs the databases of distinct workspaces to be distinct).
C23_WorkspacesIsolated ==
  [][\A t \in Threads :
       pc'[t] # pc[t] /\ pc[t] \notin {"idle", "done"} =>
         \A k \in Keys :
           k[1] # loc[t].ws => db'[DbOf(k)] = db[DbOf(k)]]_vars

\* A patch without the deletion sentinel.
Additive(p) == \A k \in DOMAIN p : p[k] # DeleteSentinel

\* Thread t has just committed a patch p whose pre-update document is what
\* patching the document before it with p gives: the second of two equal
\* patches in a row (the last two history entries hold the two pre-images).
SecondPatch(t, p) ==
  LET h == HistOf(KeyOf(t), loc[t].kind)
      n == Len(h)
  IN  /\ UpdateDone(t) /\ loc[t].content = None /\ loc[t].patch = Some(p)
      /\ n >= 2
      /\ process_result_value(h[n].content) = TheVal(loc[t].cur)
      /\ TheVal(loc[t].cur)
           = RefPatch(process_result_value(h[n - 1].content), p)

\* C24: after the second of two equal additive patches in a row the document
\* is what it was after the first, whatever the document the first patch
\* was applied to.
C24_PatchIdempotent ==
  \A t \in Threads : \A p \in Patches :
    SecondPatch(t, p) /\ Additive(p) =>
      StoredDoc(KeyOf(t), loc[t].kind) = TheVal(loc[t].cur)

\* C24 witness: {"a": "y"} was patched twice onto the document {"a": "x",
\* "b": "x"}, which a replace had stored; the first patch changed the
\* document, the second did not.
C24_Witness ==
  \E t \in Threads :
    LET h == HistOf(KeyOf(t), loc[t].kind) IN
    /\ SecondPatch(t, [k \in {"a"} |-> "y"])
    /\ Len(h) = 3
    /\ process_result_value(h[2].content) = [k \in {"a", "b"} |-> "x"]
    /\ StoredDoc(KeyOf(t), loc[t].kind)
         = [k \in {"a", "b"} |-> IF k = "a" THEN "y" ELSE "x"]

\* rows are in descending timestamp order.
Descending(rows) ==
  \A i, j \in 1..Len(rows) : i < j => rows[i].timestamp >= rows[j].timestamp

\* rows are the first rows of a descending order of the set of rows all,
\* cut after limit rows when limit is positive and not cut otherwise.
FirstOfDescending(rows, all, limit) ==
  /\ Descending(rows)
  /\ SeqRange(rows) \subseteq all
  /\ \A i, j \in 1..Len(rows) : rows[i].id = rows[j].id => i = j
  /\ Len(rows) = IF limit # None /\ TheVal(limit) > 0
                     /\ TheVal(limit) < Cardinality(all)
                  THEN TheVal(limit) ELSE Cardinality(all)
  /\ \A r \in all \ SeqRange(rows) :
       \A i \in 1..Len(rows) : r.timestamp <= rows[i].timestamp

\* (category, key) of row r1 is not after that of row r2.
PairNotAfter(r1, r2) ==
  LET c1 == Index(CategoryOrder, TheVal(r1.category))
      c2 == Index(CategoryOrder, TheVal(r2.category))
  IN  \/ c1 < c2
      \/ c1 = c2 /\ Index(CKeyOrder, TheVal(r1.key))
                      <= Index(CKeyOrder, TheVal(r2.key))

\* C25: a decision list is fetched, and a progress list returned, as the
\* first rows in descending timestamp order of the (matching) rows: min(L,
\* count) of them for a positive limit L, all of them for an absent, zero or
\* negative limit; a custom data list holds every matching row in ascending
\* (category, key) order.
C25_ListOrder ==
  \A t \in Threads :
    pc[t] = "done" /\ loc[t].status = "ok" =>
      LET d == db[DbOf(KeyOf(t))] IN
      /\ loc[t].op = "get_decisions" =>
           FirstOfDescending(
             loc[t].fetched,
             {[r EXCEPT !.tags = LoadTags(@)] : r \in SeqRange(d.decisions)},
             loc[t].limit)
      /\ loc[t].op = "get_progress" =>
           FirstOfDescending(
             TheVal(loc[t].result),
             {r \in SeqRange(d.progress) :
                /\ (loc[t].pstatus \notin {None, Some("")}
                      => r.status = TheVal(loc[t].pstatus))
                /\ (loc[t].parent # None => r.parent_id = loc[t].parent)},
             loc[t].limit)
      /\ loc[t].op = "get_custom" =>
           LET res == TheVal(loc[t].result)
               all == {r \in SeqRange(d.custom) :
                         /\ (loc[t].category \notin {None, Some("")}
                               => r.category = loc[t].category)
                         /\ (loc[t].ckey \notin {None, Some("")}
                               => r.key = loc[t].ckey)}
           IN  /\ {res[i].id : i \in 1..Len(res)} = {r.id : r \in all}
               /\ Len(res) = Cardinality(all)
               /\ \A i, j \in 1..Len(res) :
                    i < j => PairNotAfter(res[i], res[j])

\* C25 witness: of two decisions, the one logged second is the more recent;
\* a list with limit 1 fetched it alone.
C25_Witness ==
  \E t \in Threads :
    /\ pc[t] = "done" /\ loc[t].op = "get_decisions" /\ loc[t].status = "ok"
    /\ loc[t].limit = Some(1)
    /\ Len(db[DbOf(KeyOf(t))].decisions) = 2
    /\ db[DbOf(KeyOf(t))].decisions[1].timestamp = 1
    /\ db[DbOf(KeyOf(t))].decisions[2].timestamp = 2
    /\ Len(loc[t].fetched) = 1 /\ loc[t].fetched[1].timestamp = 2

\* The decisions of thread t's database as get_decisions converts them.
DecisionsOf(t) ==
  {[r EXCEPT !.tags = LoadTags(@)] :
     r \in SeqRange(db[DbOf(KeyOf(t))].decisions)}

\* C26: with a positive limit L, get_decisions returns the reference filter
\* applied to the L most recent decisions: never more than L rows, and
\* fewer than the matching decisions whenever one of them lies beyond the
\* first L.
C26_FilterAfterLimit ==
  \A t \in Threads :
    /\ pc[t] = "done" /\ loc[t].op = "get_decisions" /\ loc[t].status = "ok"
    /\ loc[t].limit # None /\ TheVal(loc[t].limit) > 0
    => LET res == TheVal(loc[t].result)
           page == loc[t].fetched
           keep(r) == RefKeep(r.tags, loc[t].tagsAll, loc[t].tagsAny)
           matching == {r \in DecisionsOf(t) : keep(r)}
       IN  /\ FirstOfDescending(page, DecisionsOf(t), loc[t].limit)
           /\ res = SelectSeq(page, keep)
           /\ Len(res) <= TheVal(loc[t].limit)
           /\ (\E r \in matching : r \notin SeqRange(page))
                => Len(res) < Cardinality(matching)

\* C26 witness: limit 1 and includeAny(["x","z"]); the most recent decision
\* has no tags, an older one is tagged ["x"]; the result is empty.
C26_Witness ==
  \E t \in Threads :
    /\ pc[t] = "done" /\ loc[t].op = "get_decisions" /\ loc[t].status = "ok"
    /\ loc[t].limit = Some(1) /\ loc[t].tagsAll = None
    /\ loc[t].tagsAny = Some(<<"x", "z">>)
    /\ \E r \in DecisionsOf(t) : r.tags = Some(<<"x">>) /\ r.timestamp = 1
    /\ Len(loc[t].fetched) = 1 /\ loc[t].fetched[1].tags = None
    /\ loc[t].fetched[1].timestamp = 2
    /\ loc[t].result = Some(<<>>)

\* C27: when the call that created the engine of a key failed during
\* bootstrap (it ended with a database error before get_engine returned),
\* the engine registry holds no entry for the key.
C27_FailedOpenNoEntry ==
  \A t \in Threads :
    /\ pc[t] = "done" /\ loc[t].creator /\ loc[t].engine = 0
    /\ loc[t].err = "SQLAlchemyError"
    => engines[KeyOf(t)] = 0

\* C28: with concurrent callers over a database that never fails, a caller
\* holds a session only for a key whose bootstrap has completed, and no get
\* or update ends because the tables or the singleton row were missing.
C28_BootstrapBeforeUse ==
  \A t \in Threads :
    /\ pc[t] \in {"get_read", "upd_read"} => KeyOf(t) \in opened
    /\ pc[t] = "done" /\ loc[t].op \in {"get", "update"} =>
         loc[t].err \notin {"SQLAlchemyError", "row not found"}

\* No call is in progress.
Quiescent == \A t \in Threads : pc[t] \in {"idle", "done"}

\* C29: whenever no call is in progress, every key of the session-factory
\* registry is a key of the engine registry and its factory is bound to the
\* engine registered under the key.
C29_FactoryHasEngine ==
  Quiescent =>
    \A k \in Keys : factories[k] # 0 => engines[k] = factories[k]

\* The other context kind.
OtherKind(kind) == IF kind = "product" THEN "active" ELSE "product"

\* C30: a step of update_product_context / update_active_context, from its
\* read of the row to its commit, leaves the row and the history of the other
\* kind and every Decision, ProgressEntry and CustomData row as they were.
C30_KindsIndependent ==
  [][\A t \in Threads :
       pc[t] \in {"upd_read", "upd_version", "upd_commit"} /\ pc'[t] # pc[t] =>
         \A u \in Databases :
           /\ db'[u].row[OtherKind(loc[t].kind)]
                = db[u].row[OtherKind(loc[t].kind)]
           /\ db'[u].hist[OtherKind(loc[t].kind)]
                = db[u].hist[OtherKind(loc[t].kind)]
           /\ db'[u].decisions = db[u].decisions
           /\ db'[u].progress = db[u].progress
           /\ db'[u].custom = db[u].custom]_vars

\* C30 witness: an update of the product context has committed a new
\* document while the active context holds a document an earlier update gave
\* it and a progress entry exists.
C30_Witness ==
  \E t \in Threads :
    /\ UpdateDone(t) /\ loc[t].kind = "product"
    /\ StoredDoc(KeyOf(t), "product") = DocA
    /\ loc[t].cur = Some(EmptyDoc)
    /\ StoredDoc(KeyOf(t), "active") = [k \in {"b"} |-> "x"]
    /\ Len(HistOf(KeyOf(t), "active")) = 1
    /\ db[DbOf(KeyOf(t))].progress # <<>>

====
